---- MODULE Spec2Model ----
(***************************************************************************)
(* Model of the link-summarising bots of khursani8/dbot: the forum         *)
(* pipeline (summarize_to_forum.py), the translate pipeline                *)
(* (translate_channel_summary.py) and the text chunkers they use.          *)
(*                                                                         *)
(* Text is a sequence of one-character strings.  The chunkers are          *)
(* translated with the length limit as a parameter (the code binds it to   *)
(* MAX_MESSAGE_LENGTH = 2000); the specifications bind it to Limit, so     *)
(* that texts longer than the limit can be enumerated.  All the code's     *)
(* arithmetic is relative to the limit and is kept as written.             *)
(***************************************************************************)
EXTENDS Integers, Sequences, FiniteSets, TLC

\* ---------------------------------------------------------------- bounds
\* The limit the specifications pass for max_len / max_length.
Limit == 40
\* Longest summary text enumerated by the chunker specification.
MaxText == 7

\* ------------------------------------------------------ program constants
MAX_MESSAGE_LENGTH == 2000
\* create_daily_thread: initial_content[: MAX_MESSAGE_LENGTH - 10] + "..."
TRUNCATE_MARGIN == 10

\* ------------------------------------------------------------ text helpers
NL == "\n"
SP == " "
Whitespace == {SP, NL}

\* Positions of the characters of s that are not whitespace.
Inked(s) == {i \in 1..Len(s) : s[i] \notin Whitespace}
Min(S) == CHOOSE i \in S : \A j \in S : i <= j
Max(S) == CHOOSE i \in S : \A j \in S : j <= i

\* str.lstrip()
lstrip(s) == IF Inked(s) = {} THEN <<>> ELSE SubSeq(s, Min(Inked(s)), Len(s))

\* str.rstrip()
rstrip(s) == IF Inked(s) = {} THEN <<>> ELSE SubSeq(s, 1, Max(Inked(s)))

\* str.strip()
strip(s) == lstrip(rstrip(s))

\* s[i : j] with 0-based Python bounds, 0 <= i, clipped at len(s)
slice(s, i, j) ==
    LET hi == IF j > Len(s) THEN Len(s) ELSE j
    IN  IF i >= hi THEN <<>> ELSE SubSeq(s, i + 1, hi)

\* str.split("\n"): the list of lines, never empty.  Line k lies between
\* the (k-1)-th and the k-th newline of s.
split_lines(s) ==
    LET nls == {i \in 1..Len(s) : s[i] = NL}
        nth(k) == IF k = 0 THEN 0
                  ELSE IF k > Cardinality(nls) THEN Len(s) + 1
                  ELSE CHOOSE i \in nls : Cardinality({j \in nls : j < i}) = k - 1
    IN  [k \in 1..(Cardinality(nls) + 1) |-> SubSeq(s, nth(k - 1) + 1, nth(k) - 1)]

\* "".join(parts)
RECURSIVE concat(_)
concat(parts) ==
    IF parts = <<>> THEN <<>> ELSE Head(parts) \o concat(Tail(parts))

\* ------------------------------------------------- send_discord_message
\* The line-splitting loop of send_discord_message: state after the loop
\* has consumed lines[i..].
RECURSIVE split_loop(_, _, _, _, _)
split_loop(lines, i, chunks, current_chunk, max_len) ==
    IF i > Len(lines) THEN [chunks |-> chunks, current_chunk |-> current_chunk]
    ELSE LET line == lines[i] IN
         IF Len(current_chunk) + Len(line) + 1 > max_len
         THEN split_loop(lines, i + 1, Append(chunks, current_chunk),
                         Append(line, NL), max_len)
         ELSE split_loop(lines, i + 1, chunks,
                         current_chunk \o Append(line, NL), max_len)

\* The bodies send_discord_message hands to post_chunk, in order.
send_discord_message_chunks(content, max_len) ==
    IF Len(content) <= max_len THEN <<content>>
    ELSE LET r == split_loop(split_lines(content), 1, <<>>, <<>>, max_len)
         IN  IF r.current_chunk # <<>>
             THEN Append(r.chunks, strip(r.current_chunk))
             ELSE r.chunks

\* ------------------------------------------------------ format_summaries
URL_OPEN == <<"*", "*", "U", "R", "L", " ", "(">>
URL_CLOSE == <<")", ":", "*", "*", " ">>
SUMMARY_HEAD == <<"*", "*", "S", "u", "m", "m", "a", "r", "y", ":", "*", "*">>
separator == <<NL, NL, "-", "-", "-", NL, NL>>
CONTINUED == <<NL, ".", ".", ".", "(", "c", "o", "n", "t", "i", "n", "u", "e", "d", ")", NL>>

\* url_line = f"**URL ({channel_name}):** {url}\n**Summary:**\n"
url_line(url, channel_name) ==
    URL_OPEN \o channel_name \o URL_CLOSE \o url \o <<NL>> \o SUMMARY_HEAD \o <<NL>>

\* entry = f"**URL ({channel_name}):** {url}\n**Summary:**\n{summary}\n\n---\n\n"
entry_of(url, summary, channel_name) ==
    url_line(url, channel_name) \o summary \o separator

remaining_len_of(url, channel_name, max_length) ==
    max_length - Len(url_line(url, channel_name)) - Len(separator)

\* [summary[i : i + remaining_len] for i in range(0, len(summary), remaining_len)]
RECURSIVE summary_parts_from(_, _, _)
summary_parts_from(summary, i, remaining_len) ==
    IF i >= Len(summary) THEN <<>>
    ELSE <<slice(summary, i, i + remaining_len)>>
         \o summary_parts_from(summary, i + remaining_len, remaining_len)

\* What a raised exception hands to the caller instead of a value.
ValueError == "ValueError"

\* range(0, len(summary), remaining_len) raises ValueError for a zero step
\* and is empty for a negative step.
summary_parts(summary, remaining_len) ==
    IF remaining_len = 0 THEN ValueError
    ELSE IF remaining_len < 0 THEN <<>>
    ELSE summary_parts_from(summary, 0, remaining_len)

part_entry(url, channel_name, parts, i) ==
    url_line(url, channel_name) \o parts[i]
        \o (IF i < Len(parts) THEN CONTINUED \o separator ELSE <<NL>> \o separator)

\* format_summaries raises ValueError (range() step of zero): the entry is
\* longer than max_length and the URL line leaves no room for the summary.
format_summaries_raises(url, summary, channel_name, max_length) ==
    /\ Len(entry_of(url, summary, channel_name)) > max_length
    /\ remaining_len_of(url, channel_name, max_length) = 0

\* format_summaries({url: [summary, channel_name]}, max_length): the chunks,
\* or ValueError where the list comprehension raises.
format_summaries(url, summary, channel_name, max_length) ==
    LET entry == entry_of(url, summary, channel_name) IN
    IF format_summaries_raises(url, summary, channel_name, max_length)
    THEN ValueError
    ELSE IF Len(entry) > max_length
    THEN LET parts == summary_parts(summary,
                          remaining_len_of(url, channel_name, max_length))
         IN  [i \in 1..Len(parts) |-> strip(part_entry(url, channel_name, parts, i))]
    ELSE <<strip(entry)>>

\* ---------------------------------------------------- create_daily_thread
\* The content of the initial message of the created thread.
initial_message(initial_content, max_len) ==
    IF Len(initial_content) > max_len
    THEN slice(initial_content, 0, max_len - TRUNCATE_MARGIN) \o <<".", ".", ".">>
    ELSE initial_content


\* ------------------------------------------- translate: output_message
SUMMARY_FROM == <<"*", "*", "S", "u", "m", "m", "a", "r", "y", " ", "f", "r", "o", "m", " ", "#">>
BY_OPEN == <<" ", "(", "b", "y", " ">>
BY_CLOSE == <<")", ":", "*", "*", NL>>
URL_LABEL == <<"U", "R", "L", ":", " ">>
ORIGINAL_OPEN == <<"*", "O", "r", "i", "g", "i", "n", "a", "l", " ", "M", "e", "s", "s", "a", "g", "e", ":", " ", "<">>
DISCORD_CHANNELS == <<"h", "t", "t", "p", "s", ":", "/", "/", "d", "i", "s", "c", "o", "r", "d", ".", "c", "o", "m", "/", "c", "h", "a", "n", "n", "e", "l", "s", "/">>
ORIGINAL_CLOSE == <<">", "*">>
SOURCE_CHANNEL_NAME == <<"j", "p">>
TARGET_CHANNEL_NAME == <<"e", "n">>
GUILD_ID == <<"1">>
author_name == <<"A">>
\* find_channel_by_name returns None
NoChannel == 0
\* The ids find_channel_by_name answers for SOURCE_CHANNEL_NAME and
\* TARGET_CHANNEL_NAME in the guild of the two-run pipeline, which lists
\* the target channel first and the source channel second.
GuildSourceId == 2
GuildTargetId == 1
\* The channels a listing holds, at most
MaxListed == 2
\* The ids of the channels of a guild
ChannelIds == (1..MaxListed) \cup {GuildSourceId, GuildTargetId}

\* original_message_link = f"https://discord.com/channels/{GUILD_ID}/{source_channel_id}/{message_id}"
\* (channel_id and message_id as the f-string prints them)
original_message_link(channel_id, message_id) ==
    DISCORD_CHANNELS \o GUILD_ID \o <<"/">> \o channel_id \o <<"/">> \o message_id

\* output_message of translate_channel_summary.main
output_message(url, summary, channel_id, message_id) ==
    SUMMARY_FROM \o SOURCE_CHANNEL_NAME \o BY_OPEN \o author_name \o BY_CLOSE
      \o URL_LABEL \o url \o <<NL, NL>>
      \o summary \o <<NL, NL>>
      \o ORIGINAL_OPEN \o original_message_link(channel_id, message_id)
      \o ORIGINAL_CLOSE


\* =========================================================== the pipelines
\* More bounds: messages in the window, runs, failing responses per behaviour.
MaxMsgs == 2
MaxRuns == 2
MaxFaults == 2
\* The limit bound for the translate pipeline, whose fixed message text is
\* longer than that of the forum pipeline.
TranslateLimit == 100

\* The links that appear in the watched channels.
U1 == <<"u", "1">>
U2 == <<"u", "2">>
YT == <<"y", "t">>
XC == <<"x", "c">>
URLs == {U1, U2, YT, XC}

\* "x.com" in url
is_xcom(url) == url = XC
\* "youtube.com" in url or "youtu.be" in url
is_youtube(url) == url = YT

\* What the collaborators return for a link when they succeed:
\* scrape_web_page -> page text, generate / generate_yt -> summary text.
generated_text(url) ==
    IF url = U2 THEN <<"a", "b", SP, "c", "d", "e", "f">>
    ELSE IF url = YT THEN <<"v", "i", "d", NL>>
    ELSE <<"o", "k", SP>>

\* The category channels of the guild, in listing order.
ChannelNames == <<<<"a">>, <<"b">>>>

\* post_title: every run of a behaviour falls on the same UTC day.
post_title == "Summary for 2025-01-01 (Wednesday)"

NoThread == 0
NoStatus == "NONE"

\* The text of a message id.
Digits == <<"1", "2", "3", "4", "5", "6", "7", "8", "9">>
MsgIdText(id) == <<Digits[id]>>

\* The summary main posts for a link: generate's text, stripped.
summary_of == [url \in URLs |-> strip(generated_text(url))]
Summaries == {summary_of[url] : url \in URLs}
Range(f) == {f[x] : x \in DOMAIN f}

\* The values the pipelines compute from these texts, tabulated once:
\* format_summaries({url: [summary, channel_name]}) ...
formatted_chunks_of ==
    [url \in URLs, summary \in Summaries, name \in Range(ChannelNames) |->
        format_summaries(url, summary, name, Limit)]
\* ... the bodies send_discord_message makes of one formatted chunk ...
thread_bodies_of ==
    [chunk \in UNION {Range(formatted_chunks_of[k]) : k \in DOMAIN formatted_chunks_of} |->
        send_discord_message_chunks(chunk, Limit)]
\* ... and, in translate, the bodies it makes of the output message of the
\* message that carries the link, read from the channel of that id.
translate_bodies_of ==
    [url \in URLs, channel_id \in ChannelIds, id \in 1..Len(Digits) |->
        send_discord_message_chunks(
            output_message(url, summary_of[url], MsgIdText(channel_id),
                           MsgIdText(id)), TranslateLimit)]

VARIABLES
    variant,                \* "forum" | "translate" | "chunker"
    source,                 \* per channel: its messages, newest first
    run,                    \* number of the current run
    pc,                     \* position of the run's control
    file,                   \* contents of the processed-URLs file
    historical_urls,        \* historical_urls / processed_urls (in memory)
    processed_urls_status,  \* forum: in-run status map
    target_thread_id,       \* forum: thread id kept for the run
    temp_target_thread_id,  \* forum: thread id of the current URL
    thread_created_this_time,
    ci,                     \* index of the channel being processed
    messages,               \* messages fetched for that channel
    mi,                     \* messages of reversed(messages) still to visit
    url_to_process,
    summary_text,
    formatted_chunks,       \* chunks still to hand to send_discord_message
    bodies,                 \* bodies still to hand to post_chunk
    threads,                \* platform: the threads of the forum channel
    posted,                 \* platform: every message created, in order
    dest_broken,            \* platform: the destination rejects every POST
    calls,                  \* history: <<run, url, operation>> invoked
    create_calls,           \* history: create-thread calls issued, per run
    loaded,                 \* history: what load_processed_urls returned
    resolved,               \* history: a thread id was found/created in run
    find_after_resolved,    \* history: find_daily_thread ran again after it
    io_failed,              \* history: a load or save of the file failed
    faults,                 \* failing responses still allowed
    text,                   \* chunker specification: the input text
    out,                    \* chunker specification: the result
    req,                    \* helper specification: one call of an HTTP helper
    message,                \* extraction specification: the message read
    all_channels,           \* category specification: the guild's channel listing
    category_channels_to_process,
    environ,                \* configuration specification: os.environ
    step,                   \* per-URL specification: route and outcomes
    lookups,                \* resolution specification: the lookups issued
    processes,              \* shared-file specification: the runs, by process
    overlapped,             \* history: a run started while another was running
    tasks,                  \* interactive specification: the on_message tasks
    source_channel_id,      \* translate main: the id found for the source name
    target_channel_id       \* translate main: the id found for the target name

vars == <<variant, source, run, pc, file, historical_urls,
          processed_urls_status, target_thread_id, temp_target_thread_id,
          thread_created_this_time, ci, messages, mi, url_to_process,
          summary_text, formatted_chunks, bodies, threads, posted,
          dest_broken, calls, create_calls, loaded, resolved,
          find_after_resolved, io_failed, faults, text, out, req, message,
          all_channels, category_channels_to_process, environ, step,
          lookups,
          processes, overlapped, tasks, source_channel_id, target_channel_id>>

\* The inputs of the specifications of single stages (extraction of the
\* candidate URL, selection of the category channels, configuration).
stage_vars == <<message, category_channels_to_process, environ, step,
                lookups, processes, overlapped, tasks>>
channel_vars == <<all_channels, source_channel_id, target_channel_id>>
input_vars == <<stage_vars, channel_vars>>
chunker_vars == <<text, out, req, input_vars>>
env_vars == <<variant, source>>

\* Sequences over S of length at most n.
SeqsUpTo(S, n) == UNION {[1..k -> S] : k \in 0..n}

\* A message of a watched channel: its id and the link its body carries.
Message(id, url) == [id |-> id, url |-> url]

\* Windows: at most MaxMsgs messages us[1], us[2], ... in order of posting,
\* the first `cut` of them in the first channel, the others in the last.  A
\* channel lists its messages newest first, as the platform returns them.
Window(us, cut, nchan) ==
    [c \in 1..nchan |->
        LET lo == IF c = 1 THEN 1 ELSE cut + 1
            hi == IF c = 1 THEN cut ELSE Len(us)
        IN  [k \in 1..(hi - lo + 1) |-> Message(hi - k + 1, us[hi - k + 1])]]

Windows(nchan) ==
    UNION {{Window(us, cut, nchan) :
               cut \in (IF nchan = 1 THEN {Len(us)} ELSE 0..Len(us))}
           : us \in SeqsUpTo(URLs, MaxMsgs) \ {<<>>}}

NumChannels == Len(source)

RunLocalsInit ==
    /\ historical_urls = {}
    /\ processed_urls_status = [u \in URLs |-> NoStatus]
    /\ target_thread_id = NoThread
    /\ temp_target_thread_id = NoThread
    /\ thread_created_this_time = FALSE
    /\ ci = 1
    /\ messages = <<>>
    /\ mi = 0
    /\ url_to_process = <<>>
    /\ summary_text = <<>>
    /\ formatted_chunks = <<>>
    /\ bodies = <<>>
    /\ loaded = {}
    /\ resolved = FALSE
    /\ find_after_resolved = FALSE

\* What an operation handed back: its name, the list it returned and the
\* exception it raised ("-" for none).
NoOutput == [op |-> "none", chunks |-> <<>>, raises |-> "-"]
NoRequest == [helper |-> "none"]
NoMessage == [content |-> <<>>, embeds |-> <<>>]
NoEnviron == [script |-> "none"]
NoListing == [listed |-> FALSE, channels |-> <<>>]
\* "-": the collaborator was not called
NoStep == [route |-> "-", generate_yt |-> "-", scrape_web_page |-> "-",
           prompt |-> "-", generate |-> "-", send |-> "-"]

InputsInit ==
    /\ message = NoMessage
    /\ all_channels = NoListing
    /\ category_channels_to_process = <<>>
    /\ environ = NoEnviron
    /\ step = NoStep
    /\ lookups = <<>>
    /\ processes = <<>>
    /\ overlapped = FALSE
    /\ tasks = <<>>
    /\ source_channel_id = NoChannel
    /\ target_channel_id = NoChannel

Init ==
    /\ variant \in {"forum", "translate"}
    /\ source \in (IF variant = "forum" THEN Windows(Len(ChannelNames))
                                        ELSE Windows(1))
    /\ run = 1
    /\ pc = "main"
    /\ file = {}
    /\ RunLocalsInit
    /\ threads = <<>>
    /\ posted = <<>>
    /\ dest_broken = FALSE
    /\ calls = {}
    /\ create_calls = 0
    /\ io_failed = FALSE
    /\ faults = MaxFaults
    /\ text = <<>>
    /\ out = NoOutput
    /\ req = NoRequest
    /\ InputsInit

\* ------------------------------------------------------------ run set-up
run_locals == <<processed_urls_status, target_thread_id,
                temp_target_thread_id, thread_created_this_time, ci,
                messages, mi, url_to_process, summary_text,
                formatted_chunks, bodies>>
iter_locals == <<temp_target_thread_id, thread_created_this_time,
                 url_to_process, summary_text, formatted_chunks, bodies>>
platform_vars == <<threads, posted, dest_broken>>

\* main: historical_urls = load_processed_urls().  A load of an existing
\* file that fails (IOError, JSONDecodeError) starts from the empty set.
LoadProcessedUrls ==
    /\ pc = "main"
    /\ \/ /\ historical_urls' = file
          /\ UNCHANGED <<faults, io_failed>>
       \/ /\ file # {}
          /\ faults > 0
          /\ faults' = faults - 1
          /\ historical_urls' = {}
          /\ io_failed' = TRUE
    /\ loaded' = historical_urls'
    /\ pc' = "channels"
    /\ UNCHANGED <<env_vars, run, file, run_locals, platform_vars, calls,
                   create_calls, resolved, find_after_resolved, chunker_vars>>

\* main: get_guild_channels and the resolution of the channels to read.
\* forum: no channels to process -> return.  translate: listing failed or
\* a channel not found -> return; else source_channel_id and
\* target_channel_id are bound to the ids found (lines 211-212).
ResolveChannels ==
    /\ pc = "channels"
    /\ \/ /\ pc' = "fetch"
          /\ IF variant = "translate"
             THEN /\ source_channel_id' = GuildSourceId
                  /\ target_channel_id' = GuildTargetId
             ELSE UNCHANGED <<source_channel_id, target_channel_id>>
          /\ UNCHANGED faults
       \/ /\ faults > 0
          /\ faults' = faults - 1
          /\ pc' = "done"
          /\ UNCHANGED <<source_channel_id, target_channel_id>>
    /\ ci' = 1
    /\ UNCHANGED <<env_vars, run, file, historical_urls,
                   processed_urls_status, target_thread_id,
                   temp_target_thread_id, thread_created_this_time,
                   messages, mi, url_to_process, summary_text,
                   formatted_chunks, bodies, platform_vars, calls,
                   create_calls, loaded, resolved, find_after_resolved,
                   io_failed, text, out, req, stage_vars, all_channels>>

\* The step after the last message of channel ci: the next channel of the
\* forum pipeline, or the end of main.
AfterChannel(c) ==
    IF variant = "forum" /\ c < NumChannels
    THEN pc' = "fetch" /\ ci' = c + 1
    ELSE pc' = "done" /\ ci' = c

\* get_channel_messages for the channel; forum: `if not messages: continue`,
\* translate: None -> return, empty -> nothing to check.
FetchMessages ==
    /\ pc = "fetch"
    /\ \/ /\ source[ci] # <<>>
          /\ messages' = source[ci]
          /\ mi' = Len(source[ci])
          /\ pc' = "message"
          /\ UNCHANGED <<ci, faults>>
       \/ /\ source[ci] = <<>>
          /\ messages' = <<>>
          /\ mi' = 0
          /\ AfterChannel(ci)
          /\ UNCHANGED faults
       \/ /\ source[ci] # <<>>
          /\ faults > 0
          /\ faults' = faults - 1
          /\ messages' = <<>>
          /\ mi' = 0
          /\ AfterChannel(ci)
    /\ UNCHANGED <<env_vars, run, file, historical_urls,
                   processed_urls_status, target_thread_id, iter_locals,
                   platform_vars, calls, create_calls, loaded, resolved,
                   find_after_resolved, io_failed, chunker_vars>>

\* The end of one iteration of `for message in reversed(messages)`.
EndIteration ==
    /\ mi' = mi - 1
    /\ pc' = "message"
    /\ temp_target_thread_id' = NoThread
    /\ thread_created_this_time' = FALSE
    /\ url_to_process' = <<>>
    /\ summary_text' = <<>>
    /\ formatted_chunks' = <<>>
    /\ bodies' = <<>>

\* Faulty variant of in_processed_urls: the loaded set is never consulted.
in_processed_urls_Never(url) == FALSE

\* Faulty variant of in_run_status: the status map is never consulted.
in_run_status_Never(url) == FALSE

\* forum: `url_to_process in processed_urls_status`
in_run_status(url) == variant = "forum" /\ processed_urls_status[url] # NoStatus
\* `url_to_process in historical_urls` / `url_to_process in processed_urls`
in_processed_urls(url) == url \in historical_urls

\* Faulty variant of reversed: the batch as fetched, newest first.
reversed_AsFetched(ms) == ms

\* reversed(messages): the fetched batch, oldest message first.
reversed(ms) == [k \in 1..Len(ms) |-> ms[Len(ms) - k + 1]]

\* The message `for message in reversed(messages)` is at when `left`
\* messages are still to visit.
current_message(ms, left) == reversed(ms)[Len(ms) - left + 1]

\* Loop head: the next message of reversed(messages), its first URL and the
\* duplicate checks (in-run status map, then the loaded set).
NextMessage ==
    /\ pc = "message"
    /\ IF mi = 0
       THEN /\ AfterChannel(ci)
            /\ UNCHANGED <<mi, processed_urls_status, url_to_process>>
       ELSE LET url == current_message(messages, mi).url IN
            IF in_run_status(url)
            THEN /\ mi' = mi - 1
                 /\ UNCHANGED <<pc, ci, processed_urls_status, url_to_process>>
            ELSE IF in_processed_urls(url)
            THEN /\ mi' = mi - 1
                 /\ processed_urls_status' =
                        IF variant = "forum"
                        THEN [processed_urls_status EXCEPT ![url] = "DUPLICATE_HISTORICAL"]
                        ELSE processed_urls_status
                 /\ UNCHANGED <<pc, ci, url_to_process>>
            ELSE /\ url_to_process' = url
                 /\ pc' = "summarize"
                 /\ UNCHANGED <<mi, ci, processed_urls_status>>
    /\ UNCHANGED <<env_vars, run, file, historical_urls, target_thread_id,
                   temp_target_thread_id, thread_created_this_time,
                   messages, summary_text, formatted_chunks, bodies,
                   platform_vars, calls, create_calls, loaded, resolved,
                   find_after_resolved, io_failed, faults, chunker_vars>>


\* ------------------------------------------------------- summary generation
channel_name == ChannelNames[ci]

Called(url, ops) == calls \cup {<<run, url, op>> : op \in ops}

SetStatus(url, status) ==
    processed_urls_status' = [processed_urls_status EXCEPT ![url] = status]

\* Outcomes of the collaborators: scrape_web_page and generate catch every
\* exception and return None; generate_yt may raise.
\* A general link: scrape_web_page returns None ("scrape_none"), or it
\* returns text and generate returns the outcome.
GenerateOutcomes == {"text", "none", "blank"}
GeneralOutcomes == {"scrape_none"} \cup GenerateOutcomes
GenerateYtOutcomes == {"text", "none", "blank", "raise"}

Cost(outcome) == IF outcome = "text" THEN 0 ELSE 1

\* forum: formatting for a known thread and the hand-over of the first chunk
\* to send_message_to_thread (main, lines 556-571).
BeginSendToThread(url, summary, thread_id) ==
    LET chunks == formatted_chunks_of[url, summary, channel_name] IN
    IF chunks = <<>>
    THEN /\ SetStatus(url, "POST_FAILED_FORMATTING")
         /\ EndIteration
    ELSE /\ SetStatus(url, "SUMMARIZED")
         /\ pc' = "post"
         /\ mi' = mi
         /\ temp_target_thread_id' = thread_id
         /\ thread_created_this_time' = FALSE
         /\ url_to_process' = url
         /\ summary_text' = summary
         /\ formatted_chunks' = Tail(chunks)
         /\ bodies' = thread_bodies_of[Head(chunks)]

\* forum main, lines 477-519: the summary of url_to_process and, when there
\* is one, the start of its posting.
SummarizeForum ==
    /\ pc = "summarize"
    /\ variant = "forum"
    /\ LET url == url_to_process IN
       \/ /\ is_xcom(url)
          /\ SetStatus(url, "SKIPPED_XCOM")
          /\ EndIteration
          /\ UNCHANGED <<calls, faults>>
       \/ /\ ~is_xcom(url)
          /\ \E o \in (IF is_youtube(url) THEN GenerateYtOutcomes
                                          ELSE GeneralOutcomes) :
             /\ faults >= Cost(o)
             /\ faults' = faults - Cost(o)
             /\ calls' = IF is_youtube(url) THEN Called(url, {"generate_yt"})
                         ELSE IF o = "scrape_none" THEN Called(url, {"scrape"})
                         ELSE Called(url, {"scrape", "generate"})
             /\ IF o = "text"
                THEN LET summary == summary_of[url] IN
                     IF target_thread_id = NoThread
                     THEN /\ SetStatus(url, "SUMMARIZED")
                          /\ pc' = "find"
                          /\ url_to_process' = url
                          /\ summary_text' = summary
                          /\ temp_target_thread_id' = NoThread
                          /\ UNCHANGED <<mi, thread_created_this_time,
                                         formatted_chunks, bodies>>
                     ELSE BeginSendToThread(url, summary, target_thread_id)
                ELSE /\ SetStatus(url,
                            IF o = "scrape_none" THEN "FAILED_SCRAPE"
                            ELSE IF o = "blank" THEN "FAILED_EMPTY_SUMMARY"
                            ELSE "FAILED_SUMMARY")
                     /\ EndIteration
    /\ UNCHANGED <<env_vars, run, file, historical_urls, target_thread_id,
                   ci, messages, platform_vars, create_calls, loaded,
                   resolved, find_after_resolved, io_failed, chunker_vars>>

\* translate main, lines 271-319: the summary of url_to_process, the
\* output message and its hand-over to send_discord_message.
SummarizeTranslate ==
    /\ pc = "summarize"
    /\ variant = "translate"
    /\ LET url == url_to_process IN
       \/ /\ ~is_youtube(url)
          /\ is_xcom(url)
          /\ EndIteration
          /\ UNCHANGED <<calls, faults>>
       \/ /\ is_youtube(url) \/ ~is_xcom(url)
          /\ \E o \in (IF is_youtube(url) THEN GenerateYtOutcomes
                                          ELSE GeneralOutcomes) :
             /\ faults >= Cost(o)
             /\ faults' = faults - Cost(o)
             /\ calls' = IF is_youtube(url) THEN Called(url, {"generate_yt"})
                         ELSE IF o = "scrape_none" THEN Called(url, {"scrape"})
                         ELSE Called(url, {"scrape", "generate"})
             /\ IF o = "text"
                THEN LET summary == summary_of[url] IN
                     /\ pc' = "post"
                     /\ url_to_process' = url
                     /\ summary_text' = summary
                     /\ bodies' = translate_bodies_of[url, source_channel_id,
                                       current_message(messages, mi).id]
                     /\ UNCHANGED <<mi, temp_target_thread_id,
                                    thread_created_this_time, formatted_chunks>>
                ELSE EndIteration
    /\ UNCHANGED <<env_vars, run, file, historical_urls,
                   processed_urls_status, target_thread_id, ci, messages,
                   platform_vars, create_calls, loaded, resolved,
                   find_after_resolved, io_failed, chunker_vars>>


\* ------------------------------------------------------ find_daily_thread
FORUM_CHANNEL_ID == 7
OtherChannel == FORUM_CHANNEL_ID + 1

ThreadIds == 1..Len(threads)
Newest(ids) == CHOOSE i \in ids : \A j \in ids : j <= i

\* A thread of the guild: its title, the channel it belongs to, whether it
\* is archived, and whether it is recent enough to be within the limits of
\* the forum channel's listings (FORUM_THREAD_CHECK_LIMIT).
\* get_active_guild_threads: the active threads of the guild, or [] when
\* the GET fails.
get_active_guild_threads(ok) ==
    IF ok THEN {i \in ThreadIds : ~threads[i].archived} ELSE {}
\* get_channel_messages(forum): the thread-creation markers of the forum
\* channel's recent messages, or None when the GET fails.
forum_thread_markers(ok) ==
    IF ok THEN {i \in ThreadIds : threads[i].parent = FORUM_CHANNEL_ID
                                  /\ threads[i].recent}
    ELSE {}
\* get_archived_threads: the forum's recent archived public threads, or []
\* on failure.
get_archived_threads(ok) ==
    IF ok THEN {i \in ThreadIds : threads[i].parent = FORUM_CHANNEL_ID
                                  /\ threads[i].archived /\ threads[i].recent}
    ELSE {}

\* thread.get('parent_id') == str(forum_channel_id) and
\* thread.get('name') == post_title
active_match(a_ok) ==
    {i \in get_active_guild_threads(a_ok) :
        threads[i].parent = FORUM_CHANNEL_ID /\ threads[i].name = post_title}
\* thread_info.get("name") == post_title and not is_active
marker_match(a_ok, m_ok) ==
    {i \in forum_thread_markers(m_ok) :
        /\ threads[i].name = post_title
        /\ ~\E t \in get_active_guild_threads(a_ok) :
               threads[t].parent = FORUM_CHANNEL_ID /\ t = i}
\* Faulty variant of archived_match: the archived threads are not searched.
archived_match_Skipped(r_ok) == {}

archived_match(r_ok) ==
    {i \in get_archived_threads(r_ok) : threads[i].name = post_title}

\* The orders in which the platform may list the archived threads: by the
\* time they were archived, which their ids do not tell.
archived_listings(r_ok) ==
    LET ids == get_archived_threads(r_ok) IN
    {l \in [1..Cardinality(ids) -> ids] :
        \A i, j \in 1..Cardinality(ids) : i # j => l[i] # l[j]}

\* `for thread in archived_threads: if thread.get('name') == post_title:
\* return int(thread_id)`: the first thread of the listing that matches.
first_archived(listing, r_ok) ==
    LET hits == {k \in DOMAIN listing : listing[k] \in archived_match(r_ok)} IN
    IF hits = {} THEN NoThread ELSE listing[Min(hits)]

\* The id find_daily_thread returns (NoThread for None) when its three GETs
\* succeed or fail as a_ok, m_ok, r_ok say; the active threads and the
\* messages are listed newest first, the archived threads as listing says.
find_daily_thread(a_ok, m_ok, r_ok, listing) ==
    IF active_match(a_ok) # {} THEN Newest(active_match(a_ok))
    ELSE IF marker_match(a_ok, m_ok) # {} THEN Newest(marker_match(a_ok, m_ok))
    ELSE first_archived(listing, r_ok)

\* The GETs find_daily_thread issues, and those of them that failed.
find_issued(a_ok, m_ok, r_ok) ==
    {"active"}
      \cup (IF active_match(a_ok) = {} THEN {"messages"} ELSE {})
      \cup (IF active_match(a_ok) = {} /\ marker_match(a_ok, m_ok) = {}
            THEN {"archived"} ELSE {})
find_failed(a_ok, m_ok, r_ok) ==
    {g \in find_issued(a_ok, m_ok, r_ok) :
        \/ g = "active" /\ ~a_ok
        \/ g = "messages" /\ ~m_ok
        \/ g = "archived" /\ ~r_ok}

\* forum main, lines 522-552: the thread id is unknown for this run.
FindThread ==
    /\ pc = "find"
    /\ \E a_ok, m_ok, r_ok \in BOOLEAN : \E listing \in archived_listings(r_ok) :
         LET failed == find_failed(a_ok, m_ok, r_ok)
             found == find_daily_thread(a_ok, m_ok, r_ok, listing) IN
         \* a GET that is not issued has no outcome
         /\ (~a_ok => "active" \in failed)
         /\ (~m_ok => "messages" \in failed)
         /\ (~r_ok => "archived" \in failed)
         /\ faults >= Cardinality(failed)
         /\ faults' = faults - Cardinality(failed)
         /\ IF found = NoThread
            THEN /\ pc' = "create"
                 /\ UNCHANGED <<target_thread_id, resolved, mi, iter_locals,
                                processed_urls_status>>
            ELSE /\ target_thread_id' = found
                 /\ resolved' = TRUE
                 /\ BeginSendToThread(url_to_process, summary_text, found)
    /\ calls' = Called(url_to_process, {"find_daily_thread"})
    /\ find_after_resolved' = (find_after_resolved \/ resolved)
    /\ UNCHANGED <<env_vars, run, file, historical_urls, ci, messages,
                   platform_vars, create_calls, loaded, io_failed,
                   chunker_vars>>

\* A message created on the platform.
Post(dest, body, via) ==
    [dest |-> dest, body |-> body, url |-> url_to_process, run |-> run,
     via |-> via]

\* forum main, lines 525-549: no thread found; create it with the first
\* formatted chunk and go on to the remaining chunks.
CreateThread ==
    /\ pc = "create"
    /\ LET url == url_to_process
           chunks == formatted_chunks_of[url, summary_text, channel_name]
           new_id == Len(threads) + 1 IN
       IF chunks = <<>>
       THEN /\ SetStatus(url, "POST_FAILED_FORMATTING")
            /\ EndIteration
            /\ UNCHANGED <<threads, posted, calls, create_calls, resolved,
                           faults>>
       ELSE /\ calls' = Called(url, {"create_daily_thread"})
            /\ create_calls' = create_calls + 1
            /\ \/ /\ threads' = Append(threads,
                        [name |-> post_title, parent |-> FORUM_CHANNEL_ID,
                         archived |-> FALSE, recent |-> TRUE, by |-> run])
                  /\ posted' = Append(posted,
                        Post(new_id, initial_message(Head(chunks), Limit), "create"))
                  /\ resolved' = TRUE
                  /\ UNCHANGED <<faults, processed_urls_status>>
                  /\ mi' = mi
                  /\ url_to_process' = url
                  /\ summary_text' = summary_text
                  /\ temp_target_thread_id' = new_id
                  /\ thread_created_this_time' = TRUE
                  /\ IF Tail(chunks) = <<>>
                     THEN /\ pc' = "record"
                          /\ formatted_chunks' = <<>>
                          /\ bodies' = <<>>
                     ELSE /\ pc' = "post"
                          /\ formatted_chunks' = Tail(Tail(chunks))
                          /\ bodies' = thread_bodies_of[Head(Tail(chunks))]
               \/ /\ faults > 0
                  /\ faults' = faults - 1
                  /\ SetStatus(url, "POST_FAILED_THREAD_CREATE")
                  /\ EndIteration
                  /\ UNCHANGED <<threads, posted, resolved>>
    /\ UNCHANGED <<env_vars, run, file, historical_urls, target_thread_id,
                   ci, messages, dest_broken, loaded, find_after_resolved,
                   io_failed, chunker_vars>>


\* ------------------------------------------------------------- post_chunk
Destination ==
    IF variant = "forum" THEN temp_target_thread_id ELSE target_channel_id
SendLimit == IF variant = "forum" THEN Limit ELSE TranslateLimit

\* The platform answers a create-message POST with an HTTP error when the
\* body is empty or longer than its limit, or when the destination is broken.
Rejected(body, max_len) ==
    dest_broken \/ Inked(body) = {} \/ Len(body) > max_len

\* Faulty variant of AfterBodySent: success is reported after the first
\* body that was sent.
AfterBodySent_FirstOnly ==
    /\ bodies' = <<>>
    /\ formatted_chunks' = <<>>
    /\ pc' = "record"

\* After post_chunk returned True for the last body of a chunk: the next
\* chunk of the summary, or post_successful = True.
AfterBodySent ==
    IF Tail(bodies) # <<>>
    THEN /\ bodies' = Tail(bodies)
         /\ UNCHANGED <<pc, formatted_chunks>>
    ELSE IF formatted_chunks # <<>>
    THEN /\ bodies' = thread_bodies_of[Head(formatted_chunks)]
         /\ formatted_chunks' = Tail(formatted_chunks)
         /\ UNCHANGED pc
    ELSE /\ bodies' = <<>>
         /\ formatted_chunks' = <<>>
         /\ pc' = "record"

\* Faulty variant of SendFailed: the send goes on with the next body.
SendFailed_SkipChunk ==
    /\ UNCHANGED <<processed_urls_status, mi, temp_target_thread_id,
                   thread_created_this_time, url_to_process, summary_text>>
    /\ AfterBodySent

\* post_chunk returned False: send_discord_message returns False; forum
\* main records POST_FAILED_CHUNK, both mains go on to the next message.
SendFailed ==
    /\ IF variant = "forum"
       THEN SetStatus(url_to_process, "POST_FAILED_CHUNK")
       ELSE UNCHANGED processed_urls_status
    /\ EndIteration

\* One attempt of post_chunk for the body send_discord_message handed to
\* it.  A RequestException (a network error, or the HTTPError that
\* raise_for_status raises for a non-429 error status) makes the forum
\* post_chunk sleep and try again, and the translate post_chunk return
\* False; any other exception makes both return False.
PostChunk ==
    /\ pc = "post"
    /\ LET body == Head(bodies) IN
       \/ /\ ~Rejected(body, SendLimit)
          /\ posted' = Append(posted, Post(Destination, body, "send"))
          /\ AfterBodySent
          /\ UNCHANGED <<faults, mi, processed_urls_status,
                         temp_target_thread_id, thread_created_this_time,
                         url_to_process, summary_text>>
       \/ /\ Rejected(body, SendLimit) \/ faults > 0
          /\ faults' = IF Rejected(body, SendLimit) THEN faults ELSE faults - 1
          /\ IF variant = "forum"
             THEN /\ pc' = "retry"
                  /\ UNCHANGED <<mi, iter_locals, processed_urls_status>>
             ELSE SendFailed
          /\ UNCHANGED posted
       \* `except Exception: return False`: an exception that is no
       \* RequestException (raised by requests.post, or by handle_rate_limit
       \* for a 429 whose body is no JSON object), whatever the destination
       \* would have answered
       \/ /\ faults > 0
          /\ faults' = faults - 1
          /\ SendFailed
          /\ UNCHANGED posted
    /\ calls' = Called(url_to_process, {"send"})
    /\ UNCHANGED <<env_vars, run, file, historical_urls, target_thread_id,
                   ci, messages, threads, dest_broken, create_calls, loaded,
                   resolved, find_after_resolved, io_failed, chunker_vars>>

\* forum post_chunk, lines 251-254: time.sleep(2), "Retrying message
\* send...", and the next turn of `while True`.
RetrySend ==
    /\ pc = "retry"
    /\ pc' = "post"
    /\ UNCHANGED <<env_vars, run, file, historical_urls, run_locals,
                   platform_vars, calls, create_calls, loaded, resolved,
                   find_after_resolved, io_failed, faults, chunker_vars>>

\* The platform starts to reject every create-message POST (the bot lost
\* the permission to send, the destination was deleted).
DestinationBreaks ==
    /\ pc = "post"
    /\ ~dest_broken
    /\ faults > 0
    /\ faults' = faults - 1
    /\ dest_broken' = TRUE
    /\ UNCHANGED <<env_vars, run, pc, file, historical_urls, run_locals,
                   threads, posted, calls, create_calls, loaded, resolved,
                   find_after_resolved, io_failed, chunker_vars>>

\* save_processed_urls returned False.  open(filepath, 'w') failed: the file
\* is as it was.  json.dump or the close failed: open has emptied the file
\* and what was written is a cut text, which load_processed_urls reads as
\* the empty set (JSONDecodeError, "Starting fresh").
save_failed(held) == {held, {}}

\* Faulty variant of RecordProcessed: the status of the URL is left as it was.
RecordProcessed_StatusKept ==
    /\ pc = "record"
    /\ historical_urls' = historical_urls \cup {url_to_process}
    /\ UNCHANGED processed_urls_status
    /\ \/ /\ file' = historical_urls'
          /\ UNCHANGED <<faults, io_failed>>
       \/ /\ faults > 0
          /\ faults' = faults - 1
          /\ io_failed' = TRUE
          /\ file' \in save_failed(file)
    /\ EndIteration
    /\ UNCHANGED <<env_vars, run, target_thread_id, ci, messages,
                   platform_vars, calls, create_calls, loaded, resolved,
                   find_after_resolved, chunker_vars>>

\* main after post_successful: add the URL to the set and save the file
\* (forum lines 574-578, translate lines 321-328).
RecordProcessed ==
    /\ pc = "record"
    /\ historical_urls' = historical_urls \cup {url_to_process}
    /\ IF variant = "forum"
       THEN SetStatus(url_to_process, "SUMMARIZED_POSTED")
       ELSE UNCHANGED processed_urls_status
    /\ \/ /\ file' = historical_urls'
          /\ UNCHANGED <<faults, io_failed>>
       \/ /\ faults > 0
          /\ faults' = faults - 1
          /\ io_failed' = TRUE
          /\ file' \in save_failed(file)
    /\ EndIteration
    /\ UNCHANGED <<env_vars, run, target_thread_id, ci, messages,
                   platform_vars, calls, create_calls, loaded, resolved,
                   find_after_resolved, chunker_vars>>

\* main returned; the external trigger starts the next run.
NextRun ==
    /\ pc = "done"
    /\ run < MaxRuns
    /\ run' = run + 1
    /\ pc' = "main"
    /\ historical_urls' = {}
    /\ processed_urls_status' = [u \in URLs |-> NoStatus]
    /\ target_thread_id' = NoThread
    /\ temp_target_thread_id' = NoThread
    /\ thread_created_this_time' = FALSE
    /\ ci' = 1
    /\ messages' = <<>>
    /\ mi' = 0
    /\ url_to_process' = <<>>
    /\ summary_text' = <<>>
    /\ formatted_chunks' = <<>>
    /\ bodies' = <<>>
    /\ loaded' = {}
    /\ resolved' = FALSE
    /\ find_after_resolved' = FALSE
    /\ create_calls' = 0
    /\ all_channels' = NoListing
    /\ source_channel_id' = NoChannel
    /\ target_channel_id' = NoChannel
    /\ UNCHANGED <<env_vars, file, platform_vars, calls, io_failed, faults,
                   text, out, req, stage_vars>>

Next ==
    \/ LoadProcessedUrls
    \/ ResolveChannels
    \/ FetchMessages
    \/ NextMessage
    \/ SummarizeForum
    \/ SummarizeTranslate
    \/ FindThread
    \/ CreateThread
    \/ PostChunk
    \/ RetrySend
    \/ DestinationBreaks
    \/ RecordProcessed
    \/ NextRun

Spec == Init /\ [][Next]_vars

TypeOK ==
    /\ run \in 1..MaxRuns
    /\ faults \in 0..MaxFaults
    /\ file \subseteq URLs
    /\ historical_urls \subseteq URLs


\* ================================================= the chunkers on any text
\* The limit bound for send_discord_message applied to a bare text.
SplitLimit == 4
ChunkAlphabet == {"a", SP, NL}

\* The URLs format_summaries is applied to: one that leaves room for
\* remaining_len characters of the summary in a chunk, one whose URL line
\* and separator fill max_length exactly (remaining_len = 0) and one that is
\* longer still (remaining_len < 0).
FILLING_URL == U1 \o [i \in 1..(Limit - Len(url_line(U1, <<"a">>)) - Len(separator)) |-> "p"]
ChunkerUrls == {U1, FILLING_URL, FILLING_URL \o <<"q">>}

ChunkerInit ==
    /\ variant = "chunker"
    /\ text \in SeqsUpTo(ChunkAlphabet, MaxText) \ {<<>>}
    /\ out = NoOutput
    /\ req = NoRequest
    /\ InputsInit
    /\ source = <<>>
    /\ run = 1
    /\ pc = "chunker"
    /\ file = {}
    /\ historical_urls = {}
    /\ processed_urls_status = [u \in URLs |-> NoStatus]
    /\ target_thread_id = NoThread
    /\ temp_target_thread_id = NoThread
    /\ thread_created_this_time = FALSE
    /\ ci = 1
    /\ messages = <<>>
    /\ mi = 0
    /\ url_to_process \in ChunkerUrls
    /\ summary_text = <<>>
    /\ formatted_chunks = <<>>
    /\ bodies = <<>>
    /\ loaded = {}
    /\ resolved = FALSE
    /\ find_after_resolved = FALSE
    /\ threads = <<>>
    /\ posted = <<>>
    /\ dest_broken = FALSE
    /\ calls = {}
    /\ create_calls = 0
    /\ io_failed = FALSE
    /\ faults = 0

pipeline_vars == <<env_vars, run, pc, file, historical_urls, run_locals,
                   platform_vars, calls, create_calls, loaded, resolved,
                   find_after_resolved, io_failed, faults>>

\* main: summary_text.strip(), then format_summaries for the one summary.
ApplyFormatSummaries ==
    /\ variant = "chunker"
    /\ out.op = "none"
    /\ strip(text) # <<>>
    /\ out' = IF format_summaries_raises(url_to_process, strip(text), <<"a">>, Limit)
               THEN [op |-> "format_summaries", chunks |-> <<>>,
                     raises |-> format_summaries(url_to_process, strip(text), <<"a">>, Limit)]
               ELSE [op |-> "format_summaries",
                     chunks |-> format_summaries(url_to_process, strip(text), <<"a">>, Limit),
                     raises |-> "-"]
    /\ UNCHANGED <<pipeline_vars, text, req, input_vars>>

\* send_discord_message on the text: the bodies it hands to post_chunk.
ApplySendDiscordMessage ==
    /\ variant = "chunker"
    /\ out.op = "none"
    /\ out' = [op |-> "send_discord_message",
               chunks |-> send_discord_message_chunks(text, SplitLimit),
               raises |-> "-"]
    /\ UNCHANGED <<pipeline_vars, text, req, input_vars>>

ChunkerNext ==
    \/ ApplyFormatSummaries
    \/ ApplySendDiscordMessage

ChunkerSpec == ChunkerInit /\ [][ChunkerNext]_vars


\* ==================================================== the HTTP helpers
\* One call of a helper that wraps one HTTP request in `while True`, against
\* a platform that answers with the responses of a plan, the last of which
\* it repeats for as long as it is asked.
MaxResponses == 3
\* Attempts and sleeps are counted up to MaxAttempts.
MaxAttempts == 4

RATE_LIMIT_SLEEP == 1
\* post_chunk (forum, GitHub action): time.sleep(2) before the next attempt
RETRY_SLEEP == 2

\* Responses: 429 with or without retry_after in its body, 2xx with a
\* regular body or with an application-level error in it, a non-429 error
\* status (raise_for_status raises HTTPError), no response at all
\* (requests raises ConnectionError).
RateLimited == {[status |-> 429, has_retry_after |-> FALSE, retry_after |-> 0],
                [status |-> 429, has_retry_after |-> TRUE, retry_after |-> 3]}
Succeeded == {[status |-> 200, body |-> b] : b \in {"ok", "error"}}
Failed == {[status |-> 403], [status |-> 0]}
Responses == RateLimited \cup Succeeded \cup Failed

\* Faulty variant of Helpers: a GET helper whose except clause tries again.
Helpers_RetryingGet ==
    {[name |-> "get_channel_messages", method |-> "GET", on_error |-> "retry",
      value |-> "json", sentinel |-> "None"]}

\* The helpers: the request's method, what the
\* `except requests.exceptions.RequestException` clause does, what the
\* helper returns for a 2xx response with a regular body, and its failure
\* sentinel.
Helpers ==
    {[name |-> "get_channel_messages", method |-> "GET", on_error |-> "return",
      value |-> "json", sentinel |-> "None"],
     [name |-> "get_guild_channels", method |-> "GET", on_error |-> "return",
      value |-> "json", sentinel |-> "None"],
     [name |-> "get_active_guild_threads", method |-> "GET", on_error |-> "return",
      value |-> "threads", sentinel |-> "[]"],
     [name |-> "get_archived_threads", method |-> "GET", on_error |-> "return",
      value |-> "threads", sentinel |-> "[]"],
     [name |-> "create_daily_thread", method |-> "POST", on_error |-> "return",
      value |-> "id", sentinel |-> "None"],
     [name |-> "forum.post_chunk", method |-> "POST", on_error |-> "retry",
      value |-> "True", sentinel |-> "False"],
     [name |-> "github.post_chunk", method |-> "POST", on_error |-> "retry",
      value |-> "True", sentinel |-> "False"],
     [name |-> "translate.post_chunk", method |-> "POST", on_error |-> "return",
      value |-> "True", sentinel |-> "False"]}

\* Faulty variant of retry_after_of: the sleep ignores the response.
retry_after_of_Fixed(response) == RATE_LIMIT_SLEEP

\* handle_rate_limit: response.json().get("retry_after", RATE_LIMIT_SLEEP)
retry_after_of(response) ==
    IF response.has_retry_after THEN response.retry_after
    ELSE RATE_LIMIT_SLEEP

\* What the helper returns after a 2xx response.  When the body holds an
\* application-level error instead of the data: the message helpers return
\* the body as it is, the thread helpers data.get('threads', []),
\* create_daily_thread fails on int(None) and returns None, post_chunk does
\* not read the body.
returned_for(helper, response) ==
    IF response.body = "ok" THEN helper.value
    ELSE IF helper.value = "threads" THEN "[]"
    ELSE IF helper.value = "id" THEN "None"
    ELSE helper.value

HelperInit ==
    /\ variant = "helper"
    /\ \E h \in Helpers : \E plan \in SeqsUpTo(Responses, MaxResponses) \ {<<>>} :
          req = [helper |-> h, plan |-> plan, at |-> 1, phase |-> "request",
                 attempts |-> 0, delay |-> 0, sleeps |-> <<>>,
                 result |-> "pending", created |-> 0]
    /\ text = <<>>
    /\ out = NoOutput
    /\ InputsInit
    /\ source = <<>>
    /\ run = 1
    /\ pc = "helper"
    /\ file = {}
    /\ RunLocalsInit
    /\ threads = <<>>
    /\ posted = <<>>
    /\ dest_broken = FALSE
    /\ calls = {}
    /\ create_calls = 0
    /\ io_failed = FALSE
    /\ faults = 0

Counted(n) == IF n < MaxAttempts THEN n + 1 ELSE n

\* One turn of `while True`: the request, handle_rate_limit,
\* raise_for_status, and the return or the except clause.
SendRequest ==
    /\ variant = "helper"
    /\ req.phase = "request"
    /\ LET response == req.plan[req.at]
           next == [req EXCEPT !.attempts = Counted(req.attempts),
                               !.at = IF req.at < Len(req.plan) THEN req.at + 1
                                      ELSE req.at]
       IN  req' =
             IF response.status = 429
             THEN [next EXCEPT !.phase = "sleep",
                               !.delay = retry_after_of(response)]
             ELSE IF response.status = 200
             THEN [next EXCEPT !.phase = "returned",
                               !.result = returned_for(req.helper, response),
                               !.created = IF req.helper.method = "POST"
                                           THEN req.created + 1 ELSE req.created]
             ELSE IF req.helper.on_error = "retry"
             THEN [next EXCEPT !.phase = "sleep", !.delay = RETRY_SLEEP]
             ELSE [next EXCEPT !.phase = "returned",
                               !.result = req.helper.sentinel]
    /\ UNCHANGED <<pipeline_vars, text, out, input_vars>>

\* time.sleep(...) of handle_rate_limit or of the except clause, then
\* `continue` / the next turn of the loop.
SleepThenRetry ==
    /\ variant = "helper"
    /\ req.phase = "sleep"
    /\ req' = [req EXCEPT !.phase = "request",
                          !.sleeps = IF Len(req.sleeps) < MaxAttempts
                                     THEN Append(req.sleeps, req.delay)
                                     ELSE req.sleeps]
    /\ UNCHANGED <<pipeline_vars, text, out, input_vars>>

HelperNext ==
    \/ SendRequest
    \/ SleepThenRetry

HelperSpec == HelperInit /\ [][HelperNext]_vars
\* The helper's process keeps running.
FairHelperSpec == HelperSpec /\ WF_vars(HelperNext)


\* The pipelines together with the helpers their requests go through.
ProgramInit == Init \/ HelperInit
ProgramNext == Next \/ HelperNext
ProgramSpec == ProgramInit /\ [][ProgramNext]_vars

\* Runs under a scheduler that keeps the process running: a step that can
\* be taken is taken.
FairSpec == Spec /\ WF_vars(Next)

\* ============================================================ deliveries
\* forum main, lines 559-568: every chunk goes to send_message_to_thread.
deliver_found(chunks, max_len) ==
    concat([i \in 1..Len(chunks) |-> send_discord_message_chunks(chunks[i], max_len)])

\* forum main, lines 527-543: the first chunk is the initial message of the
\* created thread, the others go to send_message_to_thread.
deliver_created(chunks, max_len) ==
    IF chunks = <<>> THEN <<>>
    ELSE <<initial_message(Head(chunks), max_len)>> \o deliver_found(Tail(chunks), max_len)

\* The sequences of bodies that make a complete delivery of a link's
\* summary: to a found or to a created thread, from either channel (forum);
\* for the message that carries the link (translate).
ForumDeliveries ==
    [url \in URLs |->
        UNION {{deliver_found(format_summaries(url, summary_of[url], ChannelNames[c], Limit), Limit),
                deliver_created(format_summaries(url, summary_of[url], ChannelNames[c], Limit), Limit)}
               : c \in 1..Len(ChannelNames)}]

Deliveries(url) ==
    IF variant = "forum" THEN ForumDeliveries[url]
    ELSE {translate_bodies_of[url, GuildSourceId, source[1][k].id]
          : k \in {j \in 1..Len(source[1]) : source[1][j].url = url}}

PostsFor(url, r) == SelectSeq(posted, LAMBDA p : p.url = url /\ p.run = r)
BodiesOf(ps) == [i \in 1..Len(ps) |-> ps[i].body]
EndsWith(s, t) == Len(s) >= Len(t) /\ SubSeq(s, Len(s) - Len(t) + 1, Len(s)) = t

\* Every body of url's summary was created on the platform in run r.
DeliveredIn(url, r) ==
    \E d \in Deliveries(url) : d # <<>> /\ EndsWith(BodiesOf(PostsFor(url, r)), d)
CompletelyDelivered(url) == \E r \in 1..run : DeliveredIn(url, r)

Operations == {"scrape", "generate", "generate_yt", "find_daily_thread",
               "create_daily_thread", "send"}
FailureTags == {"FAILED_SCRAPE", "FAILED_SUMMARY", "FAILED_EMPTY_SUMMARY",
                "POST_FAILED_CHUNK", "POST_FAILED_THREAD_CREATE",
                "POST_FAILED_FORMATTING", "POST_FAILED_UNKNOWN"}

\* A step that ends the iteration of a URL without recording it.
IterationFails ==
    /\ url_to_process # <<>>
    /\ url_to_process' = <<>>
    /\ pc # "record"

C2_RetainedFileStopsRepost ==
    [][\A i \in (Len(posted) + 1)..Len(posted') :
           posted'[i].url \notin file]_vars

\* ---------------------------------------------------------------- C3
\* C3: for a URL in the record loaded at the start of the run, the run
\* calls neither scrape, summarize, summarize_video, find/create thread
\* nor send.
C3_NoCallsForRecorded ==
    \A u \in loaded : \A op \in Operations : <<run, u, op>> \notin calls

\* A forum run has met a message whose URL was in the loaded record and
\* has gone on to summarise another URL.
C3_Witness ==
    /\ variant = "forum"
    /\ \E u \in loaded : processed_urls_status[u] = "DUPLICATE_HISTORICAL"
    /\ \E u \in URLs : processed_urls_status[u] = "SUMMARIZED_POSTED"

\* ---------------------------------------------------------------- C4
\* The URLs whose summary the current run posted and recorded.
PostedInRun == {u \in URLs : processed_urls_status[u] = "SUMMARIZED_POSTED"}
\* The threads the create-thread calls of run r opened.
CreatedIn(r) == {i \in ThreadIds : threads[i].by = r}
\* The messages created on the platform in run r.
PostsOfRun(r) == SelectSeq(posted, LAMBDA p : p.run = r)

\* C4: in a forum run that started with no daily thread and has posted the
\* summaries of two or more URLs, one create-thread call opened one thread,
\* and every message of the run (the initial message of the thread and the
\* sends to a thread) went to that thread.
C4_OneCreateOneThread ==
    (/\ variant = "forum"
     /\ \A i \in ThreadIds : threads[i].by = run
     /\ Cardinality(PostedInRun) >= 2)
    => /\ Cardinality(CreatedIn(run)) = 1
       /\ \A i \in 1..Len(PostsOfRun(run)) :
              PostsOfRun(run)[i].dest \in CreatedIn(run)

\* ---------------------------------------------------------------- C5
\* C5: once a run has resolved the daily thread id (find_daily_thread
\* returned one, or create_daily_thread did), find_daily_thread is not
\* invoked again in that run.
C5_ResolverNotInvokedAgain == ~find_after_resolved

\* ---------------------------------------------------------------- C6
\* The threads of the forum that carry the day's title.
DailyThreads == {i \in ThreadIds : threads[i].name = post_title}

\* C6: over the runs of one UTC day, failing lookup GETs included, at most
\* one thread with the day's title exists in the forum.
C6_OneThreadPerDay == Cardinality(DailyThreads) <= 1

\* ---------------------------------------------------------------- C7
\* C7: a step that ends the iteration of a URL in failure leaves the
\* processed set and the file as they were (the URLs posted earlier stay
\* recorded, the failing one stays out) and goes on to the next message;
\* and every run that started reaches the end of main.
C7_FailureIsolatedRunEnds ==
    /\ [][IterationFails =>
            /\ historical_urls' = historical_urls
            /\ file' = file
            /\ url_to_process \notin historical_urls'
            /\ pc' = "message"]_vars
    /\ [](pc = "main" => <>(pc = "done"))

\* ---------------------------------------------------------------- C8
\* C8: every body send_discord_message hands to post_chunk is at most as
\* long as the limit, also when a line of the text is longer than it.
C8_BodiesWithinLimit ==
    out.op = "send_discord_message" =>
        \A i \in 1..Len(out.chunks) : Len(out.chunks[i]) <= SplitLimit

\* ---------------------------------------------------------------- C9
\* The characters of s that are not whitespace, in order.
Ink(s) == SelectSeq(s, LAMBDA c : c \notin Whitespace)

\* The lines format_summaries adds around a part of the summary.
MarkerLines(url, cname) ==
    {URL_OPEN \o cname \o rstrip(URL_CLOSE) \o <<SP>> \o url,
     SUMMARY_HEAD,
     strip(CONTINUED),
     strip(separator),
     <<>>}

\* The text of a delivered body with the marker lines taken out.
SummaryBody(body, url, cname) ==
    LET lines == split_lines(body)
        kept == SelectSeq(lines, LAMBDA l : strip(l) \notin MarkerLines(url, cname))
    IN  concat(kept)

\* The summary as the messages delivered for url in run r carry it.
Reconstructed(url, r, cname) ==
    concat([i \in 1..Len(PostsFor(url, r)) |->
               SummaryBody(PostsFor(url, r)[i].body, url, cname)])

\* C9: when the forum pipeline has delivered a summary (to a found or to a
\* created thread), the delivered bodies without their marker lines carry
\* every character of the summary, in order, up to whitespace.
C9_DeliveredReconstructsSummary ==
    (variant = "forum" /\ pc = "record") =>
        Ink(Reconstructed(url_to_process, run, channel_name)) = Ink(summary_text)

\* --------------------------------------------------------------- C10
\* The part of the summary that chunk i of format_summaries carries starts
\* after the URL line; in a chunk that is not the last it ends before the
\* continued marker and the separator.
PartFirst(chunk) == chunk[Len(url_line(url_to_process, <<"a">>)) + 1]
PartLast(chunk) == chunk[Len(chunk) - Len(CONTINUED) - Len(rstrip(separator))]

\* The longest run of non-whitespace characters of s.
LongestWord(s) ==
    Max({0} \cup {n \in 1..Len(s) : \E i \in 1..(Len(s) - n + 1) :
                      \A k \in i..(i + n - 1) : s[k] \notin Whitespace})

\* C10: no boundary between two chunks of format_summaries falls inside a
\* word, unless the text has a word longer than the limit.
C10_NoSplitInsideWord ==
    (out.op = "format_summaries" /\ LongestWord(strip(text)) <= Limit) =>
        \A i \in 1..(Len(out.chunks) - 1) :
            \/ PartLast(out.chunks[i]) \in Whitespace
            \/ PartFirst(out.chunks[i + 1]) \in Whitespace

\* --------------------------------------------------------------- C11
\* The plan starts with k responses 429 followed by a 2xx response.
RateLimitedThen2xx(plan, k) ==
    /\ k < Len(plan)
    /\ \A i \in 1..k : plan[i].status = 429
    /\ plan[k + 1].status = 200

\* The sleep the claim names for a 429 response: its retry_after, or one
\* second when the field is absent.
SleepClaimed(response) ==
    IF response.has_retry_after THEN response.retry_after ELSE 1

\* C11: when the platform answers a helper with k responses 429 and then a
\* 2xx response, the helper sleeps once per 429, for the retry_after of that
\* response (RATE_LIMIT_SLEEP when the body has none), makes k + 1 attempts
\* and no more, and returns once: success when the body of the 2xx is a
\* regular one; the 2xx is never retried whatever its body holds, so a POST
\* creates one message.
C11_RateLimitRecovery ==
    variant = "helper" =>
        \A k \in 0..MaxResponses :
            RateLimitedThen2xx(req.plan, k) =>
                /\ req.attempts <= k + 1
                /\ req.created <= 1
                /\ req.phase = "returned" =>
                      /\ req.attempts = k + 1
                      /\ req.sleeps = [i \in 1..k |-> SleepClaimed(req.plan[i])]
                      /\ req.plan[k + 1].body = "ok" => req.result = req.helper.value
                      /\ req.helper.method = "POST" => req.created = 1

\* forum post_chunk has returned True after two 429 responses, one with
\* retry_after and one without, and a 2xx.
C11_Witness ==
    /\ variant = "helper"
    /\ req.helper.name = "forum.post_chunk"
    /\ req.phase = "returned"
    /\ req.sleeps = <<3, RATE_LIMIT_SLEEP>>
    /\ req.result = "True"
    /\ req.created = 1

\* --------------------------------------------------------------- C12
\* A call of post_chunk whose every request fails with a non-429 error.
PostKeepsFailing ==
    /\ variant = "helper"
    /\ req.helper.value = "True"
    /\ \A i \in 1..Len(req.plan) : req.plan[i] \in Failed

\* C12: when the create-message POST keeps failing with a non-429 error,
\* post_chunk (forum, GitHub action, translate) gives up after a bounded
\* number of attempts and returns failure.
C12_PostChunkGivesUp ==
    [](PostKeepsFailing => <>(req.phase = "returned" /\ req.result = "False"))

\* --------------------------------------------------------------- C13
\* The plan starts with k responses 429 followed by a non-429 failure.
RateLimitedThenFailed(plan, k) ==
    /\ k < Len(plan)
    /\ \A i \in 1..k : plan[i].status = 429
    /\ plan[k + 1] \in Failed

\* A step of main in which a lookup GET failed.
LookupFailed ==
    /\ pc \in {"channels", "fetch", "find"}
    /\ faults' < faults

\* C13: a GET helper makes no attempt after a non-429 failure and returns
\* its sentinel (None or []); the caller takes the sentinel for "nothing
\* there" and main goes on: a failed channel listing leaves no channel to
\* process, a failed message fetch leaves no message of that channel to
\* process, a failed thread lookup falls through to the next lookup and to
\* the creation of the thread; nothing is posted or recorded by that step.
C13_GetFailureIsNotFound ==
    /\ [](variant = "helper" /\ req.helper.method = "GET" =>
            \A k \in 0..MaxResponses :
                RateLimitedThenFailed(req.plan, k) =>
                    /\ req.attempts <= k + 1
                    /\ req.phase = "returned" =>
                          /\ req.attempts = k + 1
                          /\ req.result = req.helper.sentinel)
    /\ [][LookupFailed =>
            /\ posted' = posted
            /\ file' = file
            /\ historical_urls' = historical_urls
            /\ pc = "channels" => pc' = "done"
            /\ pc = "fetch" => messages' = <<>> /\ AfterChannel(ci)
            /\ pc = "find" => pc' \in {"create", "post"}]_vars

\* A forum run could not fetch the messages of the first channel and has
\* posted the summary of the link of the second channel.
C13_Witness ==
    /\ variant = "forum"
    /\ ci = 2
    /\ source[1] # <<>>
    /\ source[2] # <<>>
    /\ processed_urls_status[source[1][1].url] = NoStatus
    /\ processed_urls_status[source[2][1].url] = "SUMMARIZED_POSTED"

\* --------------------------------------------------------------- C14
\* The bodies still to be sent for the summary being posted, in order.
BodiesToSend ==
    bodies \o concat([i \in 1..Len(formatted_chunks) |->
                         thread_bodies_of[formatted_chunks[i]]])

IsProperPrefix(s, t) == Len(s) < Len(t) /\ SubSeq(t, 1, Len(s)) = s

\* C14: while a summary is being posted, the bodies created so far followed
\* by the bodies still to be sent are the bodies of the summary in index
\* order (a body is sent only after those before it were created); the
\* step in which a send fails creates no message, drops the bodies that
\* were left, reports the failure and leaves the URL unrecorded; a forum
\* URL that failed this way keeps a proper prefix of its bodies.
C14_ChunksInOrderStopAtFailure ==
    /\ [](pc \in {"post", "retry"} =>
            \E d \in Deliveries(url_to_process) :
                EndsWith(BodiesOf(PostsFor(url_to_process, run)) \o BodiesToSend, d))
    /\ [][(pc \in {"post", "retry"} /\ IterationFails) =>
            /\ posted' = posted
            /\ bodies' = <<>> /\ formatted_chunks' = <<>>
            /\ historical_urls' = historical_urls
            /\ file' = file
            /\ variant = "forum" =>
                   SetStatus(url_to_process, "POST_FAILED_CHUNK")]_vars
    /\ [](\A u \in URLs :
            (variant = "forum" /\ processed_urls_status[u] = "POST_FAILED_CHUNK") =>
                /\ u \notin historical_urls
                /\ \E d \in Deliveries(u) :
                       IsProperPrefix(BodiesOf(PostsFor(u, run)), d))

\* A forum run created the thread with the first body of a two-chunk
\* summary, and the send of the second chunk failed.
C14_Witness ==
    /\ variant = "forum"
    /\ processed_urls_status[U2] = "POST_FAILED_CHUNK"
    /\ Len(PostsFor(U2, run)) = 1
    /\ pc = "message"

\* --------------------------------------------------------------- C15
\* C15: no step of any run removes a URL from the processed-URLs file,
\* also when a load or a save of the file fails.
C15_FileNeverLosesEntry == [][file \subseteq file']_vars

\* --------------------------------------------------------------- C16
\* The process of a run is killed: control stops wherever it is. What the
\* platform holds stays, and so does the file, unless the kill lands inside
\* save_processed_urls between open(filepath, 'w'), which empties the file,
\* and the end of the `with` block, which flushes the text: then the file
\* is left empty and load_processed_urls reads it as the empty set. The
\* in-memory state is gone when the next run starts (NextRun).
Kill ==
    /\ variant \in {"forum", "translate"}
    /\ pc # "done"
    /\ pc' = "done"
    /\ \/ UNCHANGED file
       \/ pc = "record" /\ file' = {}
    /\ UNCHANGED <<env_vars, run, historical_urls, run_locals,
                   platform_vars, calls, create_calls, loaded, resolved,
                   find_after_resolved, io_failed, faults, chunker_vars>>

KillNext == Next \/ Kill
KillSpec == Init /\ [][KillNext]_vars

\* C16: with runs that may be killed at any point (and no failed load or
\* save of the file), a run posts nothing for a URL whose summary an
\* earlier run had posted completely.
C16_NoRepostAfterKill ==
    ~io_failed =>
        \A i \in 1..Len(posted) :
            \A r \in 1..(posted[i].run - 1) : ~DeliveredIn(posted[i].url, r)

\* ============================================ the candidate URL of a message
\* One message of `for message in reversed(messages)`: the URLs of its body
\* and of its embeds, and the one the iteration goes on with.
MaxTokens == 3
MaxEmbeds == 2

Scripts == {"forum", "translate", "github"}

\* The characters that end a match: [^\s<>"']+ (forum, translate), [^\s]+
\* (GitHub action).
UrlBreak(script) ==
    IF script = "github" THEN Whitespace
    ELSE Whitespace \cup {"<", ">", "\"", "'"}

Http == <<"h", "t", "t", "p", ":", "/", "/">>
Https == <<"h", "t", "t", "p", "s", ":", "/", "/">>

StartsAt(t, i, p) ==
    /\ i + Len(p) - 1 <= Len(t)
    /\ SubSeq(t, i, i + Len(p) - 1) = p

\* https?:// at index i: the number of characters it takes, 0 for no match.
scheme_at(t, i) ==
    IF StartsAt(t, i, Https) THEN Len(Https)
    ELSE IF StartsAt(t, i, Http) THEN Len(Http)
    ELSE 0

\* The last index of the run of characters outside brk that starts at j
\* (j - 1 when t[j] ends a match or lies beyond the text).
RECURSIVE run_end(_, _, _)
run_end(t, j, brk) ==
    IF j <= Len(t) /\ t[j] \notin brk THEN run_end(t, j + 1, brk) ELSE j - 1

\* re.findall(url_regex, text) from index i on: the matches from left to
\* right, each search starting where the last match ended.
RECURSIVE findall(_, _, _)
findall(t, i, brk) ==
    IF i > Len(t) THEN <<>>
    ELSE LET n == scheme_at(t, i)
             e == run_end(t, i + n, brk)
         IN  IF n > 0 /\ e >= i + n
             THEN <<SubSeq(t, i, e)>> \o findall(t, e + 1, brk)
             ELSE findall(t, i + 1, brk)

extract_urls_from_text(t, brk) == findall(t, 1, brk)

\* `if embed.get("url"): urls.append(embed["url"])` over the embeds
RECURSIVE embed_urls(_)
embed_urls(embeds) ==
    IF embeds = <<>> THEN <<>>
    ELSE LET embed == Head(embeds)
         IN  (IF embed.has_url /\ embed.url # <<>> THEN <<embed.url>> ELSE <<>>)
             \o embed_urls(Tail(embeds))

\* Faulty variant of urls_in_message: the URLs of the embeds come first.
urls_in_message_EmbedsFirst(script, m) ==
    embed_urls(m.embeds) \o extract_urls_from_text(m.content, UrlBreak(script))

\* forum, translate: the matches of the body, then the URLs of the embeds.
\* GitHub action: the URLs of the embeds only when the body has no match.
urls_in_message(script, m) ==
    LET urls == extract_urls_from_text(m.content, UrlBreak(script))
    IN  IF script = "github"
        THEN IF urls = <<>> /\ m.embeds # <<>>
             THEN urls \o embed_urls(m.embeds) ELSE urls
        ELSE IF m.embeds # <<>> THEN urls \o embed_urls(m.embeds) ELSE urls

\* Message bodies: up to MaxTokens of these pieces, one after the other.
Tokens == {Http \o <<"a">>, Https \o <<"b">>, Https, <<" ">>, <<"<">>, <<"x">>}
RECURSIVE Flatten(_)
Flatten(ts) == IF ts = <<>> THEN <<>> ELSE Head(ts) \o Flatten(Tail(ts))
Contents == {Flatten(ts) : ts \in SeqsUpTo(Tokens, MaxTokens)}
Embeds == {[has_url |-> FALSE, url |-> <<>>], [has_url |-> TRUE, url |-> <<>>],
           [has_url |-> TRUE, url |-> <<"e", "1">>],
           [has_url |-> TRUE, url |-> <<"e", "2">>]}

ExtractInit ==
    /\ variant \in Scripts
    /\ message \in [content : Contents, embeds : SeqsUpTo(Embeds, MaxEmbeds)]
    /\ all_channels = NoListing
    /\ category_channels_to_process = <<>>
    /\ environ = NoEnviron
    /\ step = NoStep
    /\ lookups = <<>>
    /\ processes = <<>>
    /\ overlapped = FALSE
    /\ tasks = <<>>
    /\ source_channel_id = NoChannel
    /\ target_channel_id = NoChannel
    /\ text = <<>>
    /\ out = NoOutput
    /\ req = NoRequest
    /\ source = <<>>
    /\ run = 1
    /\ pc = "extract"
    /\ file = {}
    /\ RunLocalsInit
    /\ threads = <<>>
    /\ posted = <<>>
    /\ dest_broken = FALSE
    /\ calls = {}
    /\ create_calls = 0
    /\ io_failed = FALSE
    /\ faults = 0

extract_vars == <<env_vars, run, file, historical_urls, processed_urls_status,
                  target_thread_id, temp_target_thread_id,
                  thread_created_this_time, ci, messages, mi, summary_text,
                  formatted_chunks, bodies, platform_vars, create_calls,
                  loaded, resolved, find_after_resolved, io_failed, faults,
                  text, req, input_vars>>

\* The URLs of the message; `if not urls: continue`, else
\* url_to_process = urls[0].
ExtractUrls ==
    /\ pc = "extract"
    /\ LET urls == urls_in_message(variant, message)
       IN  /\ out' = [op |-> "urls_in_message", chunks |-> urls, raises |-> "-"]
           /\ url_to_process' = IF urls = <<>> THEN <<>> ELSE urls[1]
           /\ pc' = IF urls = <<>> THEN "continue" ELSE "candidate"
    /\ UNCHANGED <<extract_vars, calls>>

\* The duplicate check on url_to_process, the first thing the iteration
\* does with the message's URL.
CheckCandidate ==
    /\ pc = "candidate"
    /\ calls' = calls \cup {<<run, url_to_process, "duplicate_check">>}
    /\ pc' = "checked"
    /\ UNCHANGED <<extract_vars, out, url_to_process>>

ExtractNext ==
    \/ ExtractUrls
    \/ CheckCandidate

ExtractSpec == ExtractInit /\ [][ExtractNext]_vars

\* --------------------------------------------------------------- C17
\* The indices of the body where a match of the URL pattern starts.
MatchStarts(t, brk) ==
    {i \in 1..Len(t) :
        \E p \in {Http, Https} :
            /\ StartsAt(t, i, p)
            /\ i + Len(p) <= Len(t)
            /\ t[i + Len(p)] \notin brk}

\* u is the text from index i up to, not including, the next break.
RunsToBreak(t, i, u, brk) ==
    /\ StartsAt(t, i, u)
    /\ \A j \in 1..Len(u) : u[j] \notin brk
    /\ \/ i + Len(u) > Len(t)
       \/ t[i + Len(u)] \in brk

Least(S) == CHOOSE x \in S : \A y \in S : x <= y

\* C17: once a message's URLs are extracted, the candidate is the first
\* match of the URL pattern in the body; with no match in the body, the
\* url of the first embed that has one; with neither, the message is
\* passed over. Only the candidate is checked for duplication.
C17_FirstUrlOnly ==
    (variant \in Scripts /\ pc \in {"continue", "candidate", "checked"}) =>
        LET brk == UrlBreak(variant)
            starts == MatchStarts(message.content, brk)
            having == {k \in 1..Len(message.embeds) :
                          /\ message.embeds[k].has_url
                          /\ message.embeds[k].url # <<>>}
        IN  /\ starts # {} =>
                /\ pc # "continue"
                /\ RunsToBreak(message.content, Least(starts), url_to_process, brk)
            /\ (starts = {} /\ having # {}) =>
                /\ pc # "continue"
                /\ url_to_process = message.embeds[Least(having)].url
            /\ (starts = {} /\ having = {}) => pc = "continue"
            /\ calls \subseteq {<<run, url_to_process, "duplicate_check">>}
            /\ pc = "continue" => calls = {}

\* A message with two links in its body and an embed with a url has been
\* checked.
C17_Witness ==
    /\ variant \in Scripts
    /\ pc = "checked"
    /\ Cardinality(MatchStarts(message.content, UrlBreak(variant))) >= 2
    /\ \E k \in 1..Len(message.embeds) : message.embeds[k].url # <<>>
    /\ calls # {}

\* --------------------------------------------------------------- C18
\* The messages of channel c that carry url: their ids (a higher id is a
\* later message).
IdsOf(url, c) == {source[c][k].id : k \in {j \in 1..Len(source[c]) : source[c][j].url = url}}

\* Every message carrying u is in channel c and older than every message
\* carrying v, all of which are in channel c too.
OlderInWindow(u, v, c) ==
    /\ IdsOf(u, c) # {} /\ IdsOf(v, c) # {}
    /\ \A d \in 1..NumChannels : d # c => IdsOf(u, d) = {} /\ IdsOf(v, d) = {}
    /\ \A a \in IdsOf(u, c) : \A b \in IdsOf(v, c) : a < b

\* C18: for URLs u and v of one channel window with u's message the older,
\* no message created for u in a run comes after one created for v in that
\* run: what is posted for u is posted before any chunk for v.
C18_OlderSummaryFirst ==
    variant \in {"forum", "translate"} =>
        \A c \in 1..NumChannels : \A u, v \in URLs :
            OlderInWindow(u, v, c) =>
                \A i, j \in 1..Len(posted) :
                    (/\ posted[i].run = posted[j].run
                     /\ posted[i].url = v
                     /\ posted[j].url = u) => j < i

\* A run has delivered, from one channel window, the summary of the older
\* message's URL and then the summary of the newer message's URL.
C18_Witness ==
    /\ variant \in {"forum", "translate"}
    /\ \E c \in 1..NumChannels : \E u, v \in URLs :
          /\ OlderInWindow(u, v, c)
          /\ DeliveredIn(u, run)
          /\ DeliveredIn(v, run)

\* ================================================ the category's channels
\* main, from get_guild_channels to the loop over the channels of the
\* category: all_channels is what get_guild_channels returned (no list
\* when the request failed).
MaxChannels == 3

BOT_CATEGORY_NAME == "bot"
\* GitHub action: the configured source, target and summary channels
SOURCE_CHANNEL_IDS == <<3>>
TARGET_CHANNEL_ID == 2
SUMMARY_CHANNEL_ID == 9

\* Channel types of the platform
TEXT == 0
CATEGORY == 4
ANNOUNCEMENT == 5
\* parent_id of a channel outside every category (null)
NoParent == 0

ChannelKinds ==
    {[type |-> CATEGORY, name |-> "bot", parent_id |-> NoParent],
     [type |-> CATEGORY, name |-> "a", parent_id |-> NoParent],
     [type |-> TEXT, name |-> "bot", parent_id |-> NoParent],
     [type |-> TEXT, name |-> "a", parent_id |-> NoParent],
     [type |-> TEXT, name |-> "a", parent_id |-> 1],
     [type |-> TEXT, name |-> "a", parent_id |-> 2],
     [type |-> TEXT, name |-> "jp", parent_id |-> 1],
     [type |-> TEXT, name |-> "en", parent_id |-> 2],
     [type |-> TEXT, name |-> "a", parent_id |-> 3],
     [type |-> ANNOUNCEMENT, name |-> "a", parent_id |-> 1]}

\* The listing of a guild whose k-th channel has id k.
Listing(kinds) ==
    [k \in 1..Len(kinds) |->
        [id |-> k, type |-> kinds[k].type, name |-> kinds[k].name,
         parent_id |-> kinds[k].parent_id]]

\* First loop: the id of the first channel of type 4 named
\* BOT_CATEGORY_NAME, NoParent (None) when there is none.
RECURSIVE category_id_of(_)
category_id_of(channels) ==
    IF channels = <<>> THEN NoParent
    ELSE IF Head(channels).type = CATEGORY /\ Head(channels).name = BOT_CATEGORY_NAME
         THEN Head(channels).id
         ELSE category_id_of(Tail(channels))

\* Faulty variant of excluded: no channel is left out.
excluded_Never(script, channel) == FALSE

\* forum: `name not in ["jp","paper","en"]`; GitHub action:
\* `int(id) not in SOURCE_CHANNEL_IDS + [TARGET_CHANNEL_ID, SUMMARY_CHANNEL_ID]`
excluded(script, channel) ==
    IF script = "forum" THEN channel.name \in {"jp", "paper", "en"}
    ELSE channel.id \in Range(SOURCE_CHANNEL_IDS)
                          \cup {TARGET_CHANNEL_ID, SUMMARY_CHANNEL_ID}

\* Second loop: the ids of the channels appended, in listing order.
RECURSIVE children_of(_, _, _)
children_of(script, channels, category_id) ==
    IF channels = <<>> THEN <<>>
    ELSE LET channel == Head(channels)
         IN  (IF /\ channel.type = TEXT
                 /\ channel.parent_id = category_id
                 /\ ~excluded(script, channel)
              THEN <<channel.id>> ELSE <<>>)
             \o children_of(script, Tail(channels), category_id)

\* `if all_channels:` ... `if category_id:` ...
select_category_channels(script, listing) ==
    IF ~listing.listed \/ listing.channels = <<>> THEN <<>>
    ELSE LET category_id == category_id_of(listing.channels)
         IN  IF category_id = NoParent THEN <<>>
             ELSE children_of(script, listing.channels, category_id)

CategoryInit ==
    /\ variant \in {"forum", "github"}
    /\ all_channels \in
          {NoListing} \cup
          {[listed |-> TRUE, channels |-> Listing(kinds)] :
               kinds \in SeqsUpTo(ChannelKinds, MaxChannels)}
    /\ message = NoMessage
    /\ category_channels_to_process = <<>>
    /\ environ = NoEnviron
    /\ step = NoStep
    /\ lookups = <<>>
    /\ processes = <<>>
    /\ overlapped = FALSE
    /\ tasks = <<>>
    /\ source_channel_id = NoChannel
    /\ target_channel_id = NoChannel
    /\ text = <<>>
    /\ out = NoOutput
    /\ req = NoRequest
    /\ source = <<>>
    /\ run = 1
    /\ pc = "identify"
    /\ file = {}
    /\ RunLocalsInit
    /\ threads = <<>>
    /\ posted = <<>>
    /\ dest_broken = FALSE
    /\ calls = {}
    /\ create_calls = 0
    /\ io_failed = FALSE
    /\ faults = 0

category_vars == <<env_vars, run, file, historical_urls, processed_urls_status,
                   target_thread_id, temp_target_thread_id,
                   thread_created_this_time, messages, mi, url_to_process,
                   summary_text, formatted_chunks, bodies, platform_vars,
                   calls, create_calls, loaded, resolved, find_after_resolved,
                   io_failed, faults, text, req, message, all_channels,
                   environ, step, lookups,
    processes, overlapped, tasks, source_channel_id, target_channel_id>>

\* The two loops over all_channels; forum: `if not
\* category_channels_to_process: return`.  The GitHub action goes on to its
\* source channels whatever the selection is.
IdentifyCategoryChannels ==
    /\ pc = "identify"
    /\ LET selected == select_category_channels(variant, all_channels)
       IN  /\ category_channels_to_process' = selected
           /\ pc' = IF variant = "github" /\ SOURCE_CHANNEL_IDS # <<>> THEN "source"
                    ELSE IF selected = <<>> THEN "done" ELSE "category"
    /\ ci' = 1
    /\ UNCHANGED <<category_vars, out>>

\* GitHub action main, lines 357-377: one turn of `for channel_id in
\* SOURCE_CHANNEL_IDS`: process_channel(channel_id, channel_name,
\* TARGET_CHANNEL_ID, TARGET_CHANNEL_ID) fetches the messages of the source
\* channel (and processes its links); after the last one the loop over the
\* category's channels follows.
ProcessSourceChannel ==
    /\ pc = "source"
    /\ out' = [op |-> "get_channel_messages",
               chunks |-> Append(out.chunks, SOURCE_CHANNEL_IDS[ci]),
               raises |-> "-"]
    /\ IF ci < Len(SOURCE_CHANNEL_IDS)
       THEN ci' = ci + 1 /\ pc' = "source"
       ELSE /\ ci' = 1
            /\ pc' = IF category_channels_to_process = <<>> THEN "done"
                     ELSE "category"
    /\ UNCHANGED <<category_vars, category_channels_to_process>>

\* One turn of `for channel_info in category_channels_to_process`: the
\* messages of the channel are fetched (and its links processed).
ProcessCategoryChannel ==
    /\ pc = "category"
    /\ out' = [op |-> "get_channel_messages",
               chunks |-> Append(out.chunks, category_channels_to_process[ci]),
               raises |-> "-"]
    /\ IF ci < Len(category_channels_to_process)
       THEN ci' = ci + 1 /\ pc' = "category"
       ELSE ci' = ci /\ pc' = "done"
    /\ UNCHANGED <<category_vars, category_channels_to_process>>

CategoryNext ==
    \/ IdentifyCategoryChannels
    \/ ProcessSourceChannel
    \/ ProcessCategoryChannel

CategorySpec == CategoryInit /\ [][CategoryNext]_vars

\* --------------------------------------------------------------- C19
\* The categories named BOT_CATEGORY_NAME in the listing (their indices).
NamedCategories ==
    {k \in 1..Len(all_channels.channels) :
        /\ all_channels.channels[k].type = CATEGORY
        /\ all_channels.channels[k].name = BOT_CATEGORY_NAME}

Denied(channel) ==
    \/ variant = "forum" /\ channel.name \in {"jp", "paper", "en"}
    \/ variant = "github" /\ channel.id \in {3, 2, 9}

\* The text channels under the (first listed) category of that name that
\* are not on the denylist.
CategorySources ==
    IF NamedCategories = {} THEN {}
    ELSE {all_channels.channels[k].id :
             k \in {j \in 1..Len(all_channels.channels) :
                       /\ all_channels.channels[j].type = TEXT
                       /\ all_channels.channels[j].parent_id =
                              all_channels.channels[Least(NamedCategories)].id
                       /\ ~Denied(all_channels.channels[j])}}

\* The channels fetched in the loop over the category's channels: in the
\* GitHub action the fetches that follow those of the source channels.
CategoryFetched ==
    IF variant = "github"
    THEN SubSeq(out.chunks, Len(SOURCE_CHANNEL_IDS) + 1, Len(out.chunks))
    ELSE out.chunks

\* C19: the channels read as category sources are exactly the text
\* channels whose parent is the category of the configured name, less the
\* denylist, each once; with no such category or no listing there is none
\* and no channel is fetched.
C19_CategorySources ==
    (variant \in {"forum", "github"} /\ pc \in {"category", "done"}) =>
        /\ Range(category_channels_to_process) = CategorySources
        /\ Len(category_channels_to_process) = Cardinality(CategorySources)
        /\ Len(CategoryFetched) <= Len(category_channels_to_process)
        /\ CategoryFetched = SubSeq(category_channels_to_process, 1, Len(CategoryFetched))
        /\ pc = "done" => CategoryFetched = category_channels_to_process
        /\ (~all_channels.listed \/ NamedCategories = {}) =>
               /\ pc = "done"
               /\ CategoryFetched = <<>>

\* The listing has the category, a text channel under it that is read, and
\* another one under it that is on the denylist.
C19_Witness ==
    /\ variant \in {"forum", "github"}
    /\ pc = "done"
    /\ CategoryFetched # <<>>
    /\ \E k \in 1..Len(all_channels.channels) :
          /\ all_channels.channels[k].type = TEXT
          /\ all_channels.channels[k].parent_id = category_id_of(all_channels.channels)
          /\ Denied(all_channels.channels[k])

\* ===================================================== the configuration
\* The statements a script executes when it is started, before main: the
\* import of utils and the reading of os.environ into the module's
\* constants. A ValueError raised there ends the process.
Unset == [set |-> FALSE, value |-> <<>>]
Value(s) == [set |-> TRUE, value |-> s]

TokenValues == {Unset, Value(<<>>), Value(<<" ">>), Value(<<"t", "o", "k">>)}
NameValues == {Unset, Value(<<>>), Value(<<"b", "o", "t">>)}
IdValues ==
    {Unset, Value(<<>>),
     Value(<<"1", "2">>), Value(<<" ", "7">>),
     Value(<<"1", "x">>), Value(<<"1", "_", "0">>), Value(<<"-", "5">>),
     Value(<<"1", ".", "5">>)}
\* SOURCE_CHANNEL_IDS: '["3"]', '[3' and '["x"]'
SourceIdsValues ==
    {Unset, Value(<<"[", "\"", "3", "\"", "]">>), Value(<<"[", "3">>),
     Value(<<"[", "\"", "x", "\"", "]">>)}
KeyValues == {Unset, Value(<<"k">>)}

DecimalDigits == {"0", "1", "2", "3", "4", "5", "6", "7", "8", "9"}

\* `if not X`: os.getenv gave None or the empty string
not_set(v) == ~v.set \/ v.value = <<>>

\* int(s) succeeds: surrounding whitespace, an optional sign, then digits
\* with single underscores between them.
int_ok(s) ==
    LET t == strip(s)
        digits == IF t # <<>> /\ t[1] \in {"+", "-"} THEN Tail(t) ELSE t
    IN  /\ digits # <<>>
        /\ \A i \in 1..Len(digits) : digits[i] \in DecimalDigits \cup {"_"}
        /\ digits[1] \in DecimalDigits
        /\ digits[Len(digits)] \in DecimalDigits
        /\ \A i \in 1..(Len(digits) - 1) :
               ~(digits[i] = "_" /\ digits[i + 1] = "_")

\* The number int(s) gives for a text it accepts: the digits in base ten,
\* the underscores left out, negated after a minus sign.
DigitValue ==
    [d \in DecimalDigits |->
        CASE d = "0" -> 0 [] d = "1" -> 1 [] d = "2" -> 2 [] d = "3" -> 3
          [] d = "4" -> 4 [] d = "5" -> 5 [] d = "6" -> 6 [] d = "7" -> 7
          [] d = "8" -> 8 [] d = "9" -> 9]
RECURSIVE digits_value(_, _)
digits_value(digits, acc) ==
    IF digits = <<>> THEN acc
    ELSE digits_value(Tail(digits),
                      IF Head(digits) = "_" THEN acc
                      ELSE 10 * acc + DigitValue[Head(digits)])
int_of(s) ==
    LET t == strip(s)
        digits == IF t[1] \in {"+", "-"} THEN Tail(t) ELSE t
    IN  IF t[1] = "-" THEN 0 - digits_value(digits, 0)
        ELSE digits_value(digits, 0)

\* [int(id_str) for id_str in json.loads(s)] succeeds, for the values of
\* SourceIdsValues: '[3' is no JSON, "x" is no integer.
source_ids_ok(s) ==
    IF s = <<"[", "\"", "3", "\"", "]">> THEN int_ok(<<"3">>)
    ELSE IF s = <<"[", "\"", "x", "\"", "]">> THEN int_ok(<<"x">>)
    ELSE FALSE

\* A required id: set, and accepted by int().
id_ok(v) == ~not_set(v) /\ int_ok(v.value)

\* The module-level statements run to their end without raising.
module_configuration(script, env) ==
    /\ ~not_set(env.GOOGLE_API_KEY)
    /\ ~not_set(env.DISCORD_TOKEN)
    /\ IF script = "forum"
       THEN /\ not_set(env.SOURCE_CHANNEL_IDS)
               \/ source_ids_ok(env.SOURCE_CHANNEL_IDS.value)
            /\ id_ok(env.FORUM_CHANNEL_ID)
       ELSE /\ ~not_set(env.SOURCE_CHANNEL_IDS)
            /\ source_ids_ok(env.SOURCE_CHANNEL_IDS.value)
            /\ id_ok(env.SUMMARY_CHANNEL_ID)
            /\ id_ok(env.TARGET_CHANNEL_ID)
    /\ ~not_set(env.BOT_CATEGORY_NAME)
    /\ id_ok(env.GUILD_ID)

Environs ==
    [script : {"forum"}, GOOGLE_API_KEY : KeyValues, DISCORD_TOKEN : TokenValues,
     SOURCE_CHANNEL_IDS : SourceIdsValues, FORUM_CHANNEL_ID : IdValues,
     SUMMARY_CHANNEL_ID : {Unset}, TARGET_CHANNEL_ID : {Unset},
     BOT_CATEGORY_NAME : NameValues, GUILD_ID : IdValues]
    \cup
    [script : {"github"}, GOOGLE_API_KEY : KeyValues, DISCORD_TOKEN : TokenValues,
     SOURCE_CHANNEL_IDS : SourceIdsValues, FORUM_CHANNEL_ID : {Unset},
     SUMMARY_CHANNEL_ID : {Unset, Value(<<"9">>), Value(<<"9", "x">>)},
     TARGET_CHANNEL_ID : {Unset, Value(<<"2">>), Value(<<"-", "5">>)},
     BOT_CATEGORY_NAME : NameValues, GUILD_ID : IdValues]

ConfigInit ==
    /\ environ \in Environs
    /\ step = NoStep
    /\ lookups = <<>>
    /\ processes = <<>>
    /\ overlapped = FALSE
    /\ tasks = <<>>
    /\ source_channel_id = NoChannel
    /\ target_channel_id = NoChannel
    /\ variant = environ.script
    /\ message = NoMessage
    /\ all_channels = NoListing
    /\ category_channels_to_process = <<>>
    /\ text = <<>>
    /\ out = NoOutput
    /\ req = NoRequest
    /\ source = <<>>
    /\ run = 1
    /\ pc = "import"
    /\ file = {}
    /\ RunLocalsInit
    /\ threads = <<>>
    /\ posted = <<>>
    /\ dest_broken = FALSE
    /\ calls = {}
    /\ create_calls = 0
    /\ io_failed = FALSE
    /\ faults = 0

config_vars == <<env_vars, run, file, historical_urls, run_locals,
                 platform_vars, calls, create_calls, loaded, resolved,
                 find_after_resolved, io_failed, faults, text, req,
                 input_vars>>

\* The module is executed: every check passes and main is entered, or a
\* ValueError ends the process.
ImportModule ==
    /\ pc = "import"
    /\ pc' = IF module_configuration(variant, environ)
             THEN "configured" ELSE "aborted"
    /\ UNCHANGED <<config_vars, out>>

\* main: its first request to the platform, get_guild_channels(GUILD_ID),
\* for the guild whose id is GUILD_ID = int(guild_id_str).
GetGuildChannels ==
    /\ pc = "configured"
    /\ out' = [op |-> "get_guild_channels",
               chunks |-> <<int_of(environ.GUILD_ID.value)>>,
               raises |-> "-"]
    /\ pc' = "requested"
    /\ UNCHANGED config_vars

ConfigNext ==
    \/ ImportModule
    \/ GetGuildChannels

ConfigSpec == ConfigInit /\ [][ConfigNext]_vars

\* --------------------------------------------------------------- C20
\* The required values of a script: the token, the guild id, the ids of
\* the destinations and the category name.
RequiredIds ==
    IF variant = "forum" THEN {environ.GUILD_ID, environ.FORUM_CHANNEL_ID}
    ELSE {environ.GUILD_ID, environ.SUMMARY_CHANNEL_ID, environ.TARGET_CHANNEL_ID}

Missing(v) == ~v.set \/ v.value = <<>>
\* An id is a string of decimal digits; a token holds no whitespace.
MalformedId(v) == \E i \in 1..Len(v.value) : v.value[i] \notin DecimalDigits
MalformedToken(v) == \E i \in 1..Len(v.value) : v.value[i] \in Whitespace

ConfigurationInvalid ==
    \/ Missing(environ.DISCORD_TOKEN) \/ MalformedToken(environ.DISCORD_TOKEN)
    \/ Missing(environ.BOT_CATEGORY_NAME)
    \/ \E v \in RequiredIds : Missing(v) \/ MalformedId(v)

\* C20: with a required configuration value missing or malformed, the
\* process aborts, and no request is made.
C20_AbortBeforeAnyRequest ==
    (variant \in {"forum", "github"} /\ pc \in {"aborted", "configured", "requested"}
         /\ ConfigurationInvalid) =>
        /\ pc = "aborted"
        /\ out = NoOutput

\* ========================================================= one URL's step
\* The part of an iteration that follows the duplicate checks, for one URL
\* in each script: the choice of the path (excluded platform, video, general
\* page), the calls to the collaborators, and the posting and recording of
\* the summary.
XCOM == <<"x", ".", "c", "o", "m">>
YOUTUBE_COM == <<"y", "o", "u", "t", "u", "b", "e", ".", "c", "o", "m">>
YOUTU_BE == <<"y", "o", "u", "t", "u", ".", "b", "e">>

REDDIT_COM == <<"r", "e", "d", "d", "i", "t", ".", "c", "o", "m">>

StepHosts == {XCOM, <<"a", "x", ".", "c", "o", "m">>, YOUTU_BE, YOUTUBE_COM,
              <<"a", ".", "i", "o">>, REDDIT_COM}
StepPaths == {<<>>, <<"/", "x", ".", "c", "o", "m">>, <<"/", "y", "o", "u", "t", "u", ".", "b", "e">>, <<"/", "p">>}
StepUrls == {Http \o host \o path : host \in StepHosts, path \in StepPaths}

\* `needle in s`
contains(s, needle) == \E i \in 1..Len(s) : StartsAt(s, i, needle)

\* "x.com" in url
mentions_xcom(url) == contains(url, XCOM)
\* "youtube.com" in url or "youtu.be" in url
mentions_youtube(url) == contains(url, YOUTUBE_COM) \/ contains(url, YOUTU_BE)

\* The branch taken: forum and GitHub action test x.com first, translate
\* tests the video hosts first.
route_of(script, url) ==
    IF script = "translate"
    THEN IF mentions_youtube(url) THEN "youtube"
         ELSE IF mentions_xcom(url) THEN "skip" ELSE "general"
    ELSE IF mentions_xcom(url) THEN "skip"
         ELSE IF mentions_youtube(url) THEN "youtube" ELSE "general"

\* What a collaborator hands back: a text, a text of whitespace only, the
\* empty string, None; generate_yt may also raise.
Returns == {"text", "blank", "empty", "None"}
returned_text(outcome) ==
    IF outcome = "text" THEN <<"o", "k">>
    ELSE IF outcome = "blank" THEN <<SP>>
    ELSE <<>>

\* Faulty variant of is_truthy: every result counts as text.
is_truthy_Always(outcome) == TRUE

\* `if text_content:` / `if summary_text:` on what was handed back
is_truthy(outcome) == outcome \in {"text", "blank"}

\* Faulty variant of catches_generate_yt: the GitHub action has no handler.
catches_generate_yt_NotGithub(script) == script # "github"

\* generate_yt is called inside a try whose handler leaves the summary None.
catches_generate_yt(script) == TRUE

\* `if summary_text:` and, forum and translate, `if summary_text:` again
\* after summary_text.strip().
posts_summary(script, summary) ==
    IF script = "github" THEN summary # <<>>
    ELSE summary # <<>> /\ strip(summary) # <<>>

\* GitHub action: summary_prefix
\* f"Summary of ({source_channel_name}) {url} :\n\n"
summary_prefix(source_channel_name, url) ==
    <<"S", "u", "m", "m", "a", "r", "y", " ", "o", "f", " ", "(">>
        \o source_channel_name \o <<")", " ">> \o url \o <<SP, ":", NL, NL>>

UrlInit ==
    /\ variant \in Scripts
    /\ url_to_process \in StepUrls
    /\ step = NoStep
    /\ lookups = <<>>
    /\ processes = <<>>
    /\ overlapped = FALSE
    /\ tasks = <<>>
    /\ source_channel_id =
          (IF variant = "translate" THEN GuildSourceId ELSE NoChannel)
    /\ target_channel_id =
          (IF variant = "translate" THEN GuildTargetId ELSE NoChannel)
    /\ message = NoMessage
    /\ all_channels = NoListing
    /\ category_channels_to_process = <<>>
    /\ environ = NoEnviron
    /\ text = <<>>
    /\ out = NoOutput
    /\ req = NoRequest
    /\ source = <<>>
    /\ run = 1
    /\ pc = "url"
    /\ file = {}
    /\ historical_urls = {}
    /\ processed_urls_status = [u \in URLs |-> NoStatus]
    /\ target_thread_id = NoThread
    /\ temp_target_thread_id = NoThread
    /\ thread_created_this_time = FALSE
    /\ ci = 1
    /\ messages = <<>>
    /\ mi = 0
    /\ summary_text = <<>>
    /\ formatted_chunks = <<>>
    /\ bodies = <<>>
    /\ loaded = {}
    /\ resolved = FALSE
    /\ find_after_resolved = FALSE
    /\ threads \in {<<>>,
                     <<[name |-> post_title, parent |-> FORUM_CHANNEL_ID,
                        archived |-> FALSE, recent |-> TRUE, by |-> 0]>>,
                     <<[name |-> post_title, parent |-> FORUM_CHANNEL_ID,
                        archived |-> TRUE, recent |-> TRUE, by |-> 0]>>}
    /\ posted = <<>>
    /\ dest_broken = FALSE
    /\ calls = {}
    /\ create_calls = 0
    /\ io_failed = FALSE
    /\ faults = 0

url_vars == <<env_vars, run, processed_urls_status, target_thread_id,
              temp_target_thread_id, thread_created_this_time, ci, messages,
              mi, url_to_process, formatted_chunks, posted, dest_broken,
              create_calls, loaded, resolved, find_after_resolved, io_failed,
              faults, text, out, req, message, all_channels,
              category_channels_to_process, environ, lookups,
    processes, overlapped, tasks, source_channel_id, target_channel_id>>

\* The if / elif / else on the URL.
ChoosePath ==
    /\ pc = "url"
    /\ LET route == route_of(variant, url_to_process)
       IN  /\ step' = [step EXCEPT !.route = route]
           /\ pc' = IF route = "skip" THEN "end"
                    ELSE IF route = "youtube" THEN "generate_yt" ELSE "scrape"
    /\ UNCHANGED <<url_vars, threads, calls, summary_text, bodies, file,
                   historical_urls>>

\* generate_yt(url) and the handler around it.
GenerateYt ==
    /\ pc = "generate_yt"
    /\ \E outcome \in Returns \cup {"raises"} :
          /\ step' = [step EXCEPT !.generate_yt = outcome]
          /\ summary_text' = returned_text(outcome)
          /\ pc' = IF outcome = "raises" /\ ~catches_generate_yt(variant)
                   THEN "raised" ELSE "post_summary"
    /\ calls' = Called(url_to_process, {"generate_yt"})
    /\ UNCHANGED <<url_vars, threads, bodies, file, historical_urls>>

\* scrape_web_page(url); without text there is no call of generate.
ScrapeWebPage ==
    /\ pc = "scrape"
    /\ \E outcome \in Returns \ {"blank"} :
          /\ step' = [step EXCEPT !.scrape_web_page = outcome]
          /\ pc' = IF is_truthy(outcome) THEN "generate" ELSE "post_summary"
    /\ calls' = Called(url_to_process, {"scrape"})
    /\ UNCHANGED <<url_vars, threads, summary_text, bodies, file, historical_urls>>

\* The prompt built around the scraped text: the GitHub action has one for
\* `'reddit.com' in url` and a default one; the forum and the translate
\* script have a single prompt.
prompt_of(script, url) ==
    IF script = "github" /\ contains(url, REDDIT_COM) THEN "discussion"
    ELSE "generic"

\* generate(prompt)
Generate ==
    /\ pc = "generate"
    /\ \E outcome \in Returns :
          /\ step' = [step EXCEPT !.generate = outcome,
                                  !.prompt = prompt_of(variant, url_to_process)]
          /\ summary_text' = returned_text(outcome)
    /\ pc' = "post_summary"
    /\ calls' = Called(url_to_process, {"generate"})
    /\ UNCHANGED <<url_vars, threads, bodies, file, historical_urls>>

\* MAX_MESSAGE_LENGTH (2000), scaled so that the entry of a URL of StepUrls
\* fits into one chunk, as the entry of a URL does in the code.
UrlStepLimit == 100

\* forum main, lines 516-578, for one summary: the thread of the day is
\* looked up; found: the formatted chunks are sent to it; not found:
\* create_daily_thread carries the first chunk as the thread's initial
\* message and send_message_to_thread the remaining ones. The URL is added
\* to the set and the file after a post that succeeded.
PostToThread ==
    \E a_ok, m_ok, r_ok, created, sent \in BOOLEAN :
    \E listing \in archived_listings(r_ok) :
        LET found == find_daily_thread(a_ok, m_ok, r_ok, listing)
            chunks == format_summaries(url_to_process, strip(summary_text),
                                       channel_name, UrlStepLimit)
            post_successful ==
                /\ chunks # <<>>
                /\ IF found # NoThread THEN sent
                   ELSE created /\ (Len(chunks) = 1 \/ sent)
            ops == {"find_daily_thread"}
                     \cup (IF found = NoThread /\ chunks # <<>>
                           THEN {"create_daily_thread"} ELSE {})
                     \cup (IF /\ chunks # <<>>
                              /\ \/ found # NoThread
                                 \/ created /\ Len(chunks) > 1
                           THEN {"send"} ELSE {})
        IN  /\ step' = [step EXCEPT !.send = IF post_successful THEN "True"
                                             ELSE "False"]
            /\ calls' = Called(url_to_process, ops)
            /\ bodies' = <<strip(summary_text)>>
            /\ threads' = IF found = NoThread /\ chunks # <<>> /\ created
                          THEN Append(threads,
                                 [name |-> post_title, parent |-> FORUM_CHANNEL_ID,
                                  archived |-> FALSE, recent |-> TRUE, by |-> run])
                          ELSE threads
            /\ IF post_successful
               THEN /\ historical_urls' = historical_urls \cup {url_to_process}
                    /\ file' = historical_urls \cup {url_to_process}
               ELSE UNCHANGED <<historical_urls, file>>

\* translate main, lines 304-328, and process_url of the GitHub action,
\* lines 244-256: send_discord_message is handed output_message (translate)
\* or summary_prefix + summary_text (GitHub action); translate adds the URL
\* to the set and the file after a send that succeeded.
PostToChannel ==
    \E sent \in BOOLEAN :
        /\ step' = [step EXCEPT !.send = IF sent THEN "True" ELSE "False"]
        /\ calls' = Called(url_to_process, {"send"})
        /\ bodies' = IF variant = "github"
                     THEN <<summary_prefix(channel_name, url_to_process) \o summary_text>>
                     ELSE <<output_message(url_to_process, strip(summary_text),
                                           MsgIdText(source_channel_id),
                                           MsgIdText(1))>>
        /\ IF sent /\ variant = "translate"
           THEN /\ historical_urls' = historical_urls \cup {url_to_process}
                /\ file' = historical_urls \cup {url_to_process}
           ELSE UNCHANGED <<historical_urls, file>>
        /\ UNCHANGED threads

\* "Post Summary if Generated": `if summary_text:` and, forum and
\* translate, again after summary_text.strip().
PostSummary ==
    /\ pc = "post_summary"
    /\ pc' = "end"
    /\ IF posts_summary(variant, summary_text)
       THEN IF variant = "forum" THEN PostToThread ELSE PostToChannel
       ELSE UNCHANGED <<step, calls, bodies, historical_urls, file, threads>>
    /\ UNCHANGED <<url_vars, summary_text>>

UrlNext ==
    \/ ChoosePath
    \/ GenerateYt
    \/ ScrapeWebPage
    \/ Generate
    \/ PostSummary

UrlSpec == UrlInit /\ [][UrlNext]_vars

\* --------------------------------------------------------------- C21
\* The host of a URL: what lies between the scheme and the next "/".
HostOf(url) ==
    LET rest == SubSeq(url, Len(Http) + 1, Len(url))
        slashes == {i \in 1..Len(rest) : rest[i] = "/"}
    IN  IF slashes = {} THEN rest ELSE SubSeq(rest, 1, Least(slashes) - 1)

OpsCalled == {c[3] : c \in {d \in calls : d[2] = url_to_process}}

\* C21: a URL is skipped as excluded exactly when its host is x.com; for a
\* skipped URL no collaborator is called, nothing is sent, and the URL is
\* not recorded.
C21_SkippedIffExcludedDomain ==
    (variant \in Scripts /\ step.route # "-") =>
        /\ step.route = "skip" <=> HostOf(url_to_process) = XCOM
        /\ step.route = "skip" =>
               /\ calls = {}
               /\ url_to_process \notin file \cup historical_urls

\* --------------------------------------------------------------- C22
VideoUrl ==
    \/ contains(url_to_process, YOUTUBE_COM)
    \/ contains(url_to_process, YOUTU_BE)

\* C22: for a URL that is not excluded, a video URL has generate_yt called
\* and neither scrape_web_page nor generate, whatever generate_yt hands back
\* or raises; any other URL has scrape_web_page called and never
\* generate_yt, and generate is called exactly when scrape_web_page handed
\* back text.
C22_OneSummarisationPath ==
    (variant \in Scripts /\ pc \in {"post_summary", "end", "raised"}
         /\ step.route \notin {"-", "skip"}) =>
        /\ VideoUrl =>
               /\ "generate_yt" \in OpsCalled
               /\ "scrape" \notin OpsCalled
               /\ "generate" \notin OpsCalled
               /\ step.scrape_web_page = "-" /\ step.generate = "-"
        /\ ~VideoUrl =>
               /\ "scrape" \in OpsCalled
               /\ "generate_yt" \notin OpsCalled
               /\ "generate" \in OpsCalled <=> step.scrape_web_page = "text"
               /\ step.generate # "-" <=> step.scrape_web_page = "text"

\* Both paths have been walked to their end with a collaborator failing:
\* a video URL whose generate_yt raised, or a page whose scrape gave nothing.
C22_Witness ==
    /\ variant \in Scripts
    /\ pc = "end"
    /\ \/ VideoUrl /\ step.generate_yt = "raises"
       \/ ~VideoUrl /\ step.route = "general" /\ step.scrape_web_page = "None"

\* --------------------------------------------------------------- C23
\* C23: after generate_yt raised, the step is where it is after generate_yt
\* handed back None: no exception leaves the step, the summary is None,
\* nothing is looked up or sent, the URL is not recorded, and the step ends.
C23_RaiseIsLikeNone ==
    (variant \in Scripts /\ step.generate_yt = "raises") =>
        /\ pc \in {"post_summary", "end"}
        /\ summary_text = <<>>
        /\ step.send = "-"
        /\ OpsCalled = {"generate_yt"}
        /\ bodies = <<>>
        /\ url_to_process \notin file \cup historical_urls

\* The step of a video URL has ended after generate_yt raised.
C23_Witness ==
    /\ variant = "github"
    /\ pc = "end"
    /\ step.generate_yt = "raises"

\* --------------------------------------------------------------- C24
\* C24: a summary that is None, empty, or empty after trimming leads to no
\* thread lookup, no thread creation and no send, and the URL stays
\* unrecorded, in every script.
C24_NoSummaryNoPost ==
    (variant \in Scripts /\ pc = "end" /\ step.route # "skip"
         /\ strip(summary_text) = <<>>) =>
        /\ OpsCalled \cap {"find_daily_thread", "create_daily_thread", "send"} = {}
        /\ step.send = "-"
        /\ url_to_process \notin file \cup historical_urls


\* --------------------------------------------------------------- C25
IsPrefix(s, t) == Len(s) <= Len(t) /\ SubSeq(t, 1, Len(s)) = s

\* The formatted chunks of url's summary, for either channel name.
ChunkLists(url) ==
    {formatted_chunks_of[url, summary_of[url], name] : name \in Range(ChannelNames)}

\* The messages of run r for url start with the initial message of a
\* created thread.
CreatedFor(url, r) ==
    \E i \in 1..Len(PostsFor(url, r)) : PostsFor(url, r)[i].via = "create"

\* After the thread was created for url in run r, the messages sent for
\* url are bodies of the chunks after the first, in order, and the initial
\* message is the only one a create-thread call made.
RemainingChunksFollow(url, r) ==
    LET ps == PostsFor(url, r) IN
    /\ ps[1].via = "create"
    /\ \A i \in 2..Len(ps) : ps[i].via = "send" /\ ps[i].dest = ps[1].dest
    /\ \E chunks \in ChunkLists(url) :
          /\ chunks # <<>>
          /\ IsPrefix(BodiesOf(Tail(ps)), deliver_found(Tail(chunks), Limit))

\* The initial message of the thread created for url in run r is the
\* first formatted chunk of url's summary.
FirstChunkIsInitialMessage(url, r) ==
    \E chunks \in ChunkLists(url) :
        chunks # <<>> /\ PostsFor(url, r)[1].body = Head(chunks)

\* C25: when a run creates the daily thread for a URL, the first formatted
\* chunk of the URL's summary is the initial message of the created thread
\* and is delivered once; the messages sent for the URL afterwards go to
\* the new thread and are the remaining chunks in order, so the first
\* chunk is not posted again.
C25_FirstChunkOnceInCreate ==
    \A u \in URLs, r \in 1..run :
        (variant = "forum" /\ CreatedFor(u, r)) =>
            /\ RemainingChunksFollow(u, r)
            /\ FirstChunkIsInitialMessage(u, r)

\* The part of C25 on the order of the messages, without the content of
\* the initial message.
RemainingChunksAlwaysFollow ==
    \A u \in URLs, r \in 1..run :
        (variant = "forum" /\ CreatedFor(u, r)) => RemainingChunksFollow(u, r)


\* =============================================== resolution of the thread
\* One URL of a forum run whose summary is ready: the resolution of the
\* daily thread, one lookup of find_daily_thread at a time.
MaxGuildThreads == 2

OtherTitle == "Summary for 2024-12-31 (Tuesday)"

\* The threads the guild may hold when the run starts.
ThreadKinds ==
    [name : {post_title, OtherTitle}, parent : {FORUM_CHANNEL_ID, OtherChannel},
     archived : BOOLEAN, recent : BOOLEAN, by : {0}]

NoLookups == <<>>
Lookup(get, ok, found) == [get |-> get, ok |-> ok, found |-> found]

ResolveInit ==
    /\ variant = "forum"
    /\ threads \in SeqsUpTo(ThreadKinds, MaxGuildThreads)
    /\ target_thread_id \in {NoThread} \cup
           {i \in 1..Len(threads) : threads[i].parent = FORUM_CHANNEL_ID
                                    /\ threads[i].name = post_title}
    /\ url_to_process \in {U1, U2}
    /\ summary_text = summary_of[url_to_process]
    /\ pc = "resolve"
    /\ lookups = NoLookups
    /\ processes = <<>>
    /\ overlapped = FALSE
    /\ tasks = <<>>
    /\ source_channel_id = NoChannel
    /\ target_channel_id = NoChannel
    /\ message = NoMessage
    /\ all_channels = NoListing
    /\ category_channels_to_process = <<>>
    /\ environ = NoEnviron
    /\ step = NoStep
    /\ text = <<>>
    /\ out = NoOutput
    /\ req = NoRequest
    /\ source = <<>>
    /\ run = 1
    /\ file = {}
    /\ historical_urls = {}
    /\ processed_urls_status = [u \in URLs |-> NoStatus]
    /\ temp_target_thread_id = NoThread
    /\ thread_created_this_time = FALSE
    /\ ci = 1
    /\ messages = <<>>
    /\ mi = 0
    /\ formatted_chunks = <<>>
    /\ bodies = <<>>
    /\ loaded = {}
    /\ resolved = FALSE
    /\ find_after_resolved = FALSE
    /\ posted = <<>>
    /\ dest_broken = FALSE
    /\ calls = {}
    /\ create_calls = 0
    /\ io_failed = FALSE
    /\ faults = 0

resolve_vars == <<env_vars, run, file, historical_urls, ci, messages, mi,
                  url_to_process, summary_text, formatted_chunks,
                  dest_broken, loaded, resolved, find_after_resolved,
                  io_failed, faults, text, out, req, message, all_channels,
                  category_channels_to_process, environ, step,
    processes, overlapped, tasks, source_channel_id, target_channel_id>>

\* main, lines 516-522: temp_target_thread_id = target_thread_id;
\* `if temp_target_thread_id is None:`.
BeginResolution ==
    /\ pc = "resolve"
    /\ temp_target_thread_id' = target_thread_id
    /\ pc' = IF target_thread_id = NoThread THEN "active" ELSE "known"
    /\ processed_urls_status' =
           [processed_urls_status EXCEPT ![url_to_process] = "SUMMARIZED"]
    /\ UNCHANGED <<target_thread_id, thread_created_this_time, threads,
                   posted, calls, create_calls, lookups, bodies, resolve_vars>>

\* `return int(thread_id)` of find_daily_thread and, in main, "Found
\* existing thread": the id is kept for the rest of the run.
ReturnFound(id) ==
    /\ temp_target_thread_id' = id
    /\ target_thread_id' = id
    /\ pc' = "known"

\* find_daily_thread, 1: the active threads of the guild.
FindActive ==
    /\ pc = "active"
    /\ \E ok \in BOOLEAN :
         LET match == active_match(ok)
             found == IF match = {} THEN NoThread ELSE Newest(match) IN
         /\ lookups' = Append(lookups, Lookup("active", ok, found))
         /\ IF found = NoThread
            THEN pc' = "messages" /\ UNCHANGED <<temp_target_thread_id, target_thread_id>>
            ELSE ReturnFound(found)
    /\ calls' = Called(url_to_process, {"find_daily_thread"})
    /\ UNCHANGED <<processed_urls_status, thread_created_this_time, threads,
                   posted, create_calls, bodies, resolve_vars>>

\* find_daily_thread, 2: the thread markers in the recent messages of the
\* forum channel.
FindMessages ==
    /\ pc = "messages"
    /\ \E ok \in BOOLEAN :
         LET match == marker_match(lookups[1].ok, ok)
             found == IF match = {} THEN NoThread ELSE Newest(match) IN
         /\ lookups' = Append(lookups, Lookup("messages", ok, found))
         /\ IF found = NoThread
            THEN pc' = "archived" /\ UNCHANGED <<temp_target_thread_id, target_thread_id>>
            ELSE ReturnFound(found)
    /\ UNCHANGED <<processed_urls_status, thread_created_this_time, threads,
                   posted, calls, create_calls, bodies, resolve_vars>>

\* find_daily_thread, 3: the archived public threads of the forum; no
\* match: `return None`.
FindArchived ==
    /\ pc = "archived"
    /\ \E ok \in BOOLEAN : \E listing \in archived_listings(ok) :
         LET found == first_archived(listing, ok) IN
         /\ lookups' = Append(lookups, Lookup("archived", ok, found))
         /\ IF found = NoThread
            THEN pc' = "create" /\ UNCHANGED <<temp_target_thread_id, target_thread_id>>
            ELSE ReturnFound(found)
    /\ UNCHANGED <<processed_urls_status, thread_created_this_time, threads,
                   posted, calls, create_calls, bodies, resolve_vars>>

\* main, lines 525-549: create_daily_thread with the first chunk; the
\* chunks after it are for send_message_to_thread.  No chunk:
\* POST_FAILED_FORMATTING and no request.
CreateDailyThread ==
    /\ pc = "create"
    /\ LET chunks == formatted_chunks_of[url_to_process, summary_text, channel_name]
           new_id == Len(threads) + 1 IN
       IF chunks = <<>>
       THEN /\ SetStatus(url_to_process, "POST_FAILED_FORMATTING")
            /\ pc' = "end"
            /\ UNCHANGED <<lookups, calls, create_calls, threads,
                           temp_target_thread_id, thread_created_this_time,
                           posted, bodies>>
       ELSE /\ lookups' = Append(lookups, Lookup("create", TRUE, NoThread))
            /\ calls' = Called(url_to_process, {"create_daily_thread"})
            /\ create_calls' = create_calls + 1
            /\ \/ /\ threads' = Append(threads,
                        [name |-> post_title, parent |-> FORUM_CHANNEL_ID,
                         archived |-> FALSE, recent |-> TRUE, by |-> run])
                  /\ temp_target_thread_id' = new_id
                  /\ thread_created_this_time' = TRUE
                  /\ posted' = Append(posted,
                        [dest |-> new_id,
                         body |-> initial_message(Head(chunks), Limit),
                         url |-> url_to_process, run |-> run,
                         via |-> "create"])
                  /\ bodies' = deliver_found(Tail(chunks), Limit)
                  /\ pc' = IF Tail(chunks) = <<>> THEN "end" ELSE "send"
                  /\ UNCHANGED processed_urls_status
               \/ /\ SetStatus(url_to_process, "POST_FAILED_THREAD_CREATE")
                  /\ pc' = "end"
                  /\ UNCHANGED <<threads, temp_target_thread_id,
                                 thread_created_this_time, posted, bodies>>
    /\ UNCHANGED <<target_thread_id, resolve_vars>>

\* main, lines 555-571: the thread is known and was not created for this
\* URL: format_summaries, whose chunks are for send_message_to_thread.  No
\* chunk: POST_FAILED_FORMATTING.
PostToKnownThread ==
    /\ pc = "known"
    /\ LET chunks == formatted_chunks_of[url_to_process, summary_text, channel_name] IN
       IF chunks = <<>>
       THEN /\ SetStatus(url_to_process, "POST_FAILED_FORMATTING")
            /\ pc' = "end"
            /\ UNCHANGED bodies
       ELSE /\ bodies' = deliver_found(chunks, Limit)
            /\ pc' = "send"
            /\ UNCHANGED processed_urls_status
    /\ UNCHANGED <<target_thread_id, temp_target_thread_id,
                   thread_created_this_time, threads, posted, calls,
                   create_calls, lookups, resolve_vars>>

\* main, lines 537-543 and 559-566: send_message_to_thread, one body at a
\* time; a send that returns False ends the URL with POST_FAILED_CHUNK
\* (break), the last body that is taken ends it as posted.
SendMessageToThread ==
    /\ pc = "send"
    /\ calls' = Called(url_to_process, {"send"})
    /\ \/ /\ posted' = Append(posted,
                [dest |-> temp_target_thread_id, body |-> Head(bodies),
                 url |-> url_to_process, run |-> run, via |-> "send"])
          /\ bodies' = Tail(bodies)
          /\ pc' = IF Tail(bodies) = <<>> THEN "end" ELSE "send"
          /\ UNCHANGED processed_urls_status
       \/ /\ SetStatus(url_to_process, "POST_FAILED_CHUNK")
          /\ pc' = "end"
          /\ UNCHANGED <<posted, bodies>>
    /\ UNCHANGED <<target_thread_id, temp_target_thread_id,
                   thread_created_this_time, threads, create_calls, lookups,
                   resolve_vars>>

ResolveNext ==
    \/ BeginResolution
    \/ FindActive
    \/ FindMessages
    \/ FindArchived
    \/ CreateDailyThread
    \/ PostToKnownThread
    \/ SendMessageToThread

ResolveSpec == ResolveInit /\ [][ResolveNext]_vars

\* --------------------------------------------------------------- C26
\* The threads that carry the day's title, as each listing shows them.
TitledActive ==
    {i \in ThreadIds : /\ threads[i].name = post_title
                       /\ threads[i].parent = FORUM_CHANNEL_ID
                       /\ ~threads[i].archived /\ threads[i].by = 0}
TitledMarked ==
    {i \in ThreadIds : /\ threads[i].name = post_title
                       /\ threads[i].parent = FORUM_CHANNEL_ID
                       /\ threads[i].recent /\ threads[i].by = 0}
TitledArchived ==
    {i \in ThreadIds : /\ threads[i].name = post_title
                       /\ threads[i].parent = FORUM_CHANNEL_ID
                       /\ threads[i].archived /\ threads[i].recent
                       /\ threads[i].by = 0}

LookupOrder == <<"active", "messages", "archived", "create">>
GetsOf(ls) == [k \in 1..Len(ls) |-> ls[k].get]
CreateIssued == \E k \in 1..Len(lookups) : lookups[k].get = "create"

\* C26: the lookups of a resolution are issued in the order active threads,
\* thread markers, archived threads; a create-thread call comes only after
\* all three, each of which showed no thread with the day's title (a lookup
\* whose GET succeeded leaves no such thread in its listing); the first
\* lookup with a
\* match is the last one, its thread is the one used, and no thread is
\* created.
C26_CreateAfterThreeLookups ==
    variant = "forum" =>
    /\ IsPrefix(GetsOf(lookups), LookupOrder)
    /\ create_calls = (IF CreateIssued THEN 1 ELSE 0)
    /\ CreateIssued =>
          /\ Len(lookups) = 4
          /\ \A k \in 1..3 : lookups[k].found = NoThread
          /\ lookups[1].ok => TitledActive = {}
          /\ lookups[2].ok => TitledMarked = {}
          /\ lookups[3].ok => TitledArchived = {}
    /\ \A k \in 1..Len(lookups) :
          lookups[k].found # NoThread =>
              /\ k = Len(lookups)
              /\ temp_target_thread_id = lookups[k].found
              /\ threads[lookups[k].found].name = post_title
              /\ threads[lookups[k].found].parent = FORUM_CHANNEL_ID
              /\ \A i \in ThreadIds : threads[i].by = 0

\* A thread was created after the three lookups found nothing, although
\* the guild holds a thread with the day's title (in another channel, or
\* too old for the listings).
C26_Witness ==
    /\ pc = "end"
    /\ CreateIssued
    /\ thread_created_this_time
    /\ \E i \in ThreadIds : threads[i].by = 0 /\ threads[i].name = post_title
    /\ \A k \in 1..3 : lookups[k].ok


\* --------------------------------------------------------------- C27
\* Nothing was called or posted for url in the current run.
UntouchedInRun(url) ==
    /\ \A op \in Operations : <<run, url, op>> \notin calls
    /\ PostsFor(url, run) = <<>>

\* C27: in a forum run, a URL whose turn to be summarised has come has not
\* been scraped, summarised or posted before in that run, whatever became
\* of an earlier message with the same URL; and the loop head leaves the
\* status of a URL that has one as it is (the status map is looked at
\* first, so the persisted set does not relabel the URL).
C27_OncePerRun ==
    /\ []((variant = "forum" /\ pc = "summarize") => UntouchedInRun(url_to_process))
    /\ [][(variant = "forum" /\ pc = "message") =>
             \A u \in URLs :
                 processed_urls_status[u] # NoStatus =>
                     processed_urls_status'[u] = processed_urls_status[u]]_vars

\* A forum run met the same URL in both channels: the scrape of the first
\* message failed, the second message was visited and the run is over.
C27_Witness ==
    /\ variant = "forum"
    /\ run = 1
    /\ pc = "done"
    /\ source[1] # <<>> /\ source[2] # <<>>
    /\ source[1][1].url = U1 /\ source[2][1].url = U1
    /\ processed_urls_status[U1] = "FAILED_SCRAPE"
    /\ faults = MaxFaults - 1


\* ===================================================== the GitHub action
\* summarize_github_action.py: the runs of main over the category channels,
\* whose summaries go to SUMMARY_CHANNEL_ID; the messages of that channel
\* are `posted`, oldest first.
\* max_len of send_discord_message (2000), scaled
GithubLimit == 25
\* SUMMARY_CHECK_LIMIT (100), scaled
CheckLimit == 2
\* The requests and collaborators that fail in one behaviour, at most
GithubFaults == 1

\* A message somebody wrote in the destination before the first run.
UserMessage(body) ==
    [dest |-> SUMMARY_CHANNEL_ID, body |-> body, url |-> <<>>, run |-> 0,
     via |-> "user"]
Preexisting ==
    {<<>>,
     <<UserMessage(<<"s", "e", "e", SP>> \o U1 \o <<"!">>)>>,
     <<UserMessage(<<"u", SP, "1">>)>>}

\* The bodies send_discord_message of the GitHub action hands to
\* post_chunk: every chunk of the split is stripped when it is sent.
github_chunks(content, max_len) ==
    IF Len(content) <= max_len THEN <<content>>
    ELSE LET r == split_loop(split_lines(content), 1, <<>>, <<>>, max_len)
             chunks == IF r.current_chunk # <<>>
                       THEN Append(r.chunks, r.current_chunk) ELSE r.chunks
         IN  [k \in 1..Len(chunks) |-> strip(chunks[k])]

\* The channels one run of main walks: the source channels, whose
\* summaries go to TARGET_CHANNEL_ID, then the channels of
\* category_channels_to_process, whose summaries go to SUMMARY_CHANNEL_ID.
\* source[c] holds the messages of the c-th of them.
NumSources == Len(SOURCE_CHANNEL_IDS)
in_source_channels == ci <= NumSources

\* The windows of a source channel: no message, or one message with a link
\* (a page or a video).
SourceLinks == {U1, YT}
SourceWindows == {<<>>} \cup {<<Message(MaxMsgs + 1, u)>> : u \in SourceLinks}

\* The name GET /channels/{channel_id} answers for the source channel.
channel_info_name == <<"s">>
\* channel_name = f"Source Channel {channel_id}"
default_channel_name(channel_id) ==
    <<"S", "o", "u", "r", "c", "e", SP, "C", "h", "a", "n", "n", "e", "l", SP>>
        \o MsgIdText(channel_id)

\* The channel_name main hands to process_channel: source_channel_names
\* [channel_id] (kept in `out`), or the name of the category's channel.
process_channel_name ==
    IF in_source_channels THEN out.chunks[1]
    ELSE ChannelNames[category_channels_to_process[ci - NumSources]]

\* destination_channel_id and check_duplicate_channel_id of process_channel
destination_channel_id ==
    IF in_source_channels THEN TARGET_CHANNEL_ID ELSE SUMMARY_CHANNEL_ID

\* The messages of a channel, oldest first.
channel_messages(channel_id) ==
    SelectSeq(posted, LAMBDA m : m.dest = channel_id)

\* get_channel_messages(check_channel_id, SUMMARY_CHECK_LIMIT): the most
\* recent messages of the channel.
recent_messages(check_channel_id, limit) ==
    LET ms == channel_messages(check_channel_id)
    IN  SubSeq(ms, Max({1, Len(ms) - limit + 1}), Len(ms))

\* Faulty variant of check_if_summarized: every message of the channel is
\* looked at.
check_if_summarized_AllMessages(url_to_check, check_channel_id, ok) ==
    ok /\ \E k \in 1..Len(channel_messages(check_channel_id)) :
             contains(channel_messages(check_channel_id)[k].body, url_to_check)

\* check_if_summarized: False when the messages could not be fetched, else
\* `url_to_check in message.get("content", "")` for one of the messages.
check_if_summarized(url_to_check, check_channel_id, ok) ==
    /\ ok
    /\ \E k \in 1..Len(recent_messages(check_channel_id, CheckLimit)) :
           contains(recent_messages(check_channel_id, CheckLimit)[k].body,
                    url_to_check)

GithubInit ==
    /\ variant = "github"
    /\ source \in {<<w>> \o cat : w \in SourceWindows,
                                  cat \in Windows(Len(ChannelNames))}
    /\ posted \in Preexisting
    /\ run = 1
    /\ pc = "identify"
    /\ ci = 1
    /\ messages = <<>>
    /\ mi = 0
    /\ url_to_process = <<>>
    /\ faults = GithubFaults
    /\ calls = {}
    /\ InputsInit
    /\ text = <<>>
    /\ out = NoOutput
    /\ req = NoRequest
    /\ file = {}
    /\ historical_urls = {}
    /\ processed_urls_status = [u \in URLs |-> NoStatus]
    /\ target_thread_id = NoThread
    /\ temp_target_thread_id = NoThread
    /\ thread_created_this_time = FALSE
    /\ summary_text = <<>>
    /\ formatted_chunks = <<>>
    /\ bodies = <<>>
    /\ loaded = {}
    /\ resolved = FALSE
    /\ find_after_resolved = FALSE
    /\ threads = <<>>
    /\ dest_broken = FALSE
    /\ create_calls = 0
    /\ io_failed = FALSE

github_vars == <<variant, source, file, historical_urls,
                 processed_urls_status, target_thread_id,
                 temp_target_thread_id, thread_created_this_time,
                 formatted_chunks, threads, dest_broken, create_calls,
                 loaded, resolved, find_after_resolved, io_failed, text,
                 req, message, all_channels,
                 environ, step,
    processes, overlapped, tasks, source_channel_id, target_channel_id>>

\* main, lines 322-355: get_guild_channels and the two loops over its
\* answer give the channels of the category; None (the request failed):
\* "Skipping category processing".  The source channels follow either way.
IdentifyChannels ==
    /\ pc = "identify"
    /\ \/ /\ category_channels_to_process' =
                [k \in 1..Len(ChannelNames) |-> k]
          /\ UNCHANGED faults
       \/ /\ faults > 0
          /\ faults' = faults - 1
          /\ category_channels_to_process' = <<>>
    /\ pc' = "fetch"
    /\ ci' = 1
    /\ UNCHANGED <<run, messages, mi, url_to_process, summary_text, bodies,
                   posted, calls, lookups, out, github_vars>>

\* main: the next channel of the two loops, or the end of the run.
NextChannel ==
    IF ci < NumSources + Len(category_channels_to_process)
    THEN pc' = "fetch" /\ ci' = ci + 1
    ELSE pc' = "done" /\ ci' = ci

\* main, lines 361-377 and 384-389: for a source channel the name is asked
\* for first (GET /channels/{id}; the default name when the request
\* fails); then process_channel: get_channel_messages; None: "Skipping
\* channel".
ProcessChannel ==
    /\ pc = "fetch"
    /\ \E named, fetched \in BOOLEAN :
          /\ named \/ in_source_channels
          /\ faults >= (IF named THEN 0 ELSE 1) + (IF fetched THEN 0 ELSE 1)
          /\ faults' = faults - (IF named THEN 0 ELSE 1)
                              - (IF fetched THEN 0 ELSE 1)
          /\ out' = IF in_source_channels
                    THEN [op |-> "source_channel_names",
                          chunks |-> <<IF named THEN channel_info_name
                                       ELSE default_channel_name(SOURCE_CHANNEL_IDS[ci])>>,
                          raises |-> "-"]
                    ELSE out
          /\ IF fetched
             THEN /\ messages' = source[ci]
                  /\ mi' = Len(source[ci])
                  /\ pc' = "message"
                  /\ ci' = ci
             ELSE /\ messages' = <<>>
                  /\ mi' = 0
                  /\ NextChannel
    /\ UNCHANGED <<run, url_to_process, summary_text, bodies, posted, calls,
                   lookups, category_channels_to_process, github_vars>>

\* process_channel, loop head: the next message of reversed(messages), its
\* first URL, and check_if_summarized on check_duplicate_channel_id.
CheckIfSummarized ==
    /\ pc = "message"
    /\ IF mi = 0
       THEN /\ NextChannel
            /\ UNCHANGED <<mi, url_to_process, lookups, faults>>
       ELSE LET url == current_message(messages, mi).url IN
            \E ok \in BOOLEAN :
               /\ ok \/ faults > 0
               /\ faults' = IF ok THEN faults ELSE faults - 1
               /\ lookups' = <<Lookup("check_if_summarized", ok,
                                      check_if_summarized(url, destination_channel_id, ok))>>
               /\ url_to_process' = url
               /\ ci' = ci
               /\ IF check_if_summarized(url, destination_channel_id, ok)
                  THEN mi' = mi - 1 /\ pc' = pc
                  ELSE mi' = mi /\ pc' = "summarize"
    /\ UNCHANGED <<run, messages, summary_text, bodies, posted, calls, out,
                   category_channels_to_process, github_vars>>

\* process_url, lines 191-256, up to the call of send_discord_message:
\* the summary of the URL, and the bodies send_discord_message will hand to
\* post_chunk one after the other; without a summary process_url returns
\* False and the loop goes to the next message.
ProcessUrl ==
    /\ pc = "summarize"
    /\ LET url == url_to_process
           route == IF is_xcom(url) THEN "skip"
                    ELSE IF is_youtube(url) THEN "video" ELSE "general" IN
       IF route = "skip"
       THEN /\ mi' = mi - 1
            /\ pc' = "message"
            /\ UNCHANGED <<summary_text, bodies, calls, faults>>
       ELSE \E o \in (IF route = "video" THEN GenerateYtOutcomes
                                         ELSE GeneralOutcomes) :
              LET summary == IF o = "text" THEN generated_text(url)
                             ELSE IF o = "blank" THEN <<SP>> ELSE <<>>
                  content == summary_prefix(process_channel_name, url) \o summary
                  chunks == IF posts_summary("github", summary)
                            THEN github_chunks(content, GithubLimit) ELSE <<>>
              IN  /\ faults >= Cost(o)
                  /\ faults' = faults - Cost(o)
                  /\ summary_text' = summary
                  /\ calls' = Called(url,
                        (IF route = "video" THEN {"generate_yt"}
                         ELSE IF o = "scrape_none" THEN {"scrape"}
                         ELSE {"scrape", "generate"})
                        \cup (IF chunks # <<>> THEN {"send"} ELSE {}))
                  /\ bodies' = chunks
                  /\ IF chunks = <<>>
                     THEN mi' = mi - 1 /\ pc' = "message"
                     ELSE mi' = mi /\ pc' = "send"
    /\ UNCHANGED <<run, ci, messages, url_to_process, posted, lookups, out,
                   category_channels_to_process, github_vars>>

\* send_discord_message, lines 84-130: one request of post_chunk for the
\* next body.  The message is created: the next body follows after the
\* pause of line 129, or the send returns True.  The request fails with a
\* RequestException or is answered 429: post_chunk sleeps and asks again.
\* Another exception: post_chunk returns False and the send stops.  A body
\* the platform rejects (empty, or too long) is answered with an HTTP
\* error at every request: post_chunk asks again for ever and the run
\* stays where it is.
GithubPostChunk ==
    /\ pc = "send"
    /\ LET body == Head(bodies) IN
       \/ /\ ~Rejected(body, GithubLimit)
          /\ posted' = Append(posted,
                [dest |-> destination_channel_id, body |-> body,
                 url |-> url_to_process, run |-> run, via |-> "send"])
          /\ bodies' = Tail(bodies)
          /\ IF Tail(bodies) = <<>>
             THEN mi' = mi - 1 /\ pc' = "message"
             ELSE mi' = mi /\ pc' = pc
          /\ UNCHANGED faults
       \/ /\ faults > 0
          /\ faults' = faults - 1
          /\ UNCHANGED <<posted, bodies, mi, pc>>
       \/ /\ faults > 0
          /\ faults' = faults - 1
          /\ bodies' = <<>>
          /\ mi' = mi - 1
          /\ pc' = "message"
          /\ UNCHANGED posted
       \/ /\ Rejected(body, GithubLimit)
          /\ UNCHANGED <<posted, bodies, mi, pc, faults>>
    /\ UNCHANGED <<run, ci, messages, url_to_process, summary_text, calls,
                   lookups, out, category_channels_to_process, github_vars>>

\* main returned; the schedule starts the next run of the action.
NextActionRun ==
    /\ pc = "done"
    /\ run < MaxRuns
    /\ run' = run + 1
    /\ pc' = "identify"
    /\ ci' = 1
    /\ messages' = <<>>
    /\ mi' = 0
    /\ url_to_process' = <<>>
    /\ summary_text' = <<>>
    /\ lookups' = <<>>
    /\ out' = NoOutput
    /\ category_channels_to_process' = <<>>
    /\ UNCHANGED <<bodies, posted, calls, faults, github_vars>>

GithubNext ==
    \/ IdentifyChannels
    \/ ProcessChannel
    \/ CheckIfSummarized
    \/ ProcessUrl
    \/ GithubPostChunk
    \/ NextActionRun

GithubSpec == GithubInit /\ [][GithubNext]_vars


\* --------------------------------------------------------------- C28
\* url occurs in body, character for character.
OccursIn(url, body) ==
    \E i \in 1..Len(body) : \E j \in i..Len(body) : SubSeq(body, i, j) = url

\* The positions in `posted` of the CheckLimit most recent messages of the
\* checked channel.
RecentPositions ==
    {k \in 1..Len(posted) :
        /\ posted[k].dest = destination_channel_id
        /\ Cardinality({j \in (k + 1)..Len(posted) :
                           posted[j].dest = destination_channel_id}) < CheckLimit}

\* C28: the answer of check_if_summarized is true exactly when the messages
\* of the checked channel were fetched and the body of one of its
\* SUMMARY_CHECK_LIMIT most recent messages contains the URL as a
\* substring; it is false when none does and when the fetch failed.
C28_CheckIsSubstringOfRecent ==
    [][(variant = "github" /\ pc = "message" /\ lookups' # lookups) =>
          /\ Len(lookups') = 1
          /\ lookups'[1].found =
                (/\ lookups'[1].ok
                 /\ \E k \in RecentPositions : OccursIn(url_to_process', posted[k].body))
          /\ lookups'[1].found = (pc' = "message")]_vars

\* The check answered true for a URL that an earlier message of the
\* checked channel carries inside a longer text, with more messages in the
\* channel than the check looks at.
C28_Witness ==
    /\ variant = "github"
    /\ lookups # <<>>
    /\ lookups[1].found
    /\ Len(channel_messages(destination_channel_id)) > CheckLimit
    /\ \E k \in RecentPositions :
          OccursIn(url_to_process, posted[k].body) /\ posted[k].body # url_to_process

\* --------------------------------------------------------------- C29
\* The summaries of url the action posted to the destination so far.
SummariesPosted(url) ==
    {k \in 1..Len(posted) : /\ posted[k].via = "send"
                            /\ posted[k].url = url
                            /\ posted[k].dest = destination_channel_id
                            /\ OccursIn(url, posted[k].body)}

\* C29: in the GitHub action, a URL whose summary the action has posted to
\* the destination is not handed to process_url again, in the same run or
\* in a later one over the same window, whatever was posted to the
\* destination since (stated for the checks whose fetch succeeded).
C29_NoSecondSummary ==
    (variant = "github" /\ pc = "summarize" /\ lookups[1].ok) =>
        SummariesPosted(url_to_process) = {}


\* --------------------------------------------------------------- C30
\* chunk begins with the lines that name the URL.
StartsWithUrlLine(chunk) == IsPrefix(url_line(url_to_process, <<"a">>), chunk)
\* chunk carries the "...(continued)" marker.
CarriesContinued(chunk) ==
    \E i \in 1..Len(chunk) : StartsAt(chunk, i, CONTINUED)

\* C30: format_summaries returns a list that is not empty and whose chunks
\* are each at most max_length long; when the entry is longer than
\* max_length, every chunk starts with the URL line and every chunk but the
\* last carries the continued marker.
C30_ChunksWithinMaxLength ==
    out.op = "format_summaries" =>
        /\ out.chunks # <<>>
        /\ \A i \in 1..Len(out.chunks) : Len(out.chunks[i]) <= Limit
        /\ Len(entry_of(url_to_process, strip(text), <<"a">>)) > Limit =>
              \A i \in 1..Len(out.chunks) :
                  /\ StartsWithUrlLine(out.chunks[i])
                  /\ i < Len(out.chunks) => CarriesContinued(out.chunks[i])

\* The part of C30 on the shape of the chunks, without their length.
ChunksNamedAndMarked ==
    out.op = "format_summaries" =>
        /\ out.chunks # <<>>
        /\ Len(entry_of(url_to_process, strip(text), <<"a">>)) > Limit =>
              \A i \in 1..Len(out.chunks) :
                  /\ StartsWithUrlLine(out.chunks[i])
                  /\ i < Len(out.chunks) => CarriesContinued(out.chunks[i])


\* ===================================================== send_long_message
\* utils.send_long_message on any text.
\* max_len of send_long_message (2000), scaled
LongLimit == 9
MaxLongText == 10
LongAlphabet == {"a", "b", SP}

header_marker == <<"-", "-", "-", NL>>
footer_marker == <<NL, "-", "-", "-">>

\* [item for item in re.split(r'(\s+)', text) if item]: the maximal runs of
\* whitespace and of other characters, in order, from position i on.
RECURSIVE words_and_spaces_from(_, _)
words_and_spaces_from(t, i) ==
    IF i > Len(t) THEN <<>>
    ELSE LET same(k) == (t[k] \in Whitespace) = (t[i] \in Whitespace)
             j == Max({k \in i..Len(t) : \A m \in i..k : same(m)})
         IN  <<SubSeq(t, i, j)>> \o words_and_spaces_from(t, j + 1)

words_and_spaces(t) == words_and_spaces_from(t, 1)

\* The loop over words_and_spaces: the chunks and current_chunk_content
\* after the items from i on.
RECURSIVE long_loop(_, _, _, _, _)
long_loop(items, i, chunks, current_chunk_content, effective_max_len) ==
    IF i > Len(items)
    THEN IF current_chunk_content # <<>>
         THEN Append(chunks, current_chunk_content) ELSE chunks
    ELSE LET item == items[i] IN
         IF Len(item) > effective_max_len
         THEN long_loop(items, i + 1,
                        (IF current_chunk_content # <<>>
                         THEN Append(chunks, current_chunk_content) ELSE chunks)
                            \o <<item>>,
                        <<>>, effective_max_len)
         ELSE IF Len(current_chunk_content) + Len(item) > effective_max_len
         THEN long_loop(items, i + 1, Append(chunks, current_chunk_content),
                        lstrip(item), effective_max_len)
         ELSE long_loop(items, i + 1, chunks, current_chunk_content \o item,
                        effective_max_len)

\* message_to_send for one chunk: with both markers, without the footer,
\* or the raw chunk.
message_to_send(chunk_content, max_len) ==
    LET both == header_marker \o strip(chunk_content) \o footer_marker
        head == header_marker \o strip(chunk_content)
    IN  IF Len(both) <= max_len THEN both
        ELSE IF Len(head) <= max_len THEN head
        ELSE strip(chunk_content)

\* The messages send_long_message hands to channel.send, in order.
send_long_message(t, max_len) ==
    IF Len(t) <= max_len THEN <<t>>
    ELSE LET effective_max_len == max_len - Len(header_marker) - Len(footer_marker)
             chunks == SelectSeq(
                 long_loop(words_and_spaces(t), 1, <<>>, <<>>, effective_max_len),
                 LAMBDA chunk : strip(chunk) # <<>>)
         IN  [k \in 1..Len(chunks) |-> message_to_send(chunks[k], max_len)]

LongInit ==
    /\ variant = "interactive"
    /\ text \in SeqsUpTo(LongAlphabet, MaxLongText)
    /\ out = NoOutput
    /\ req = NoRequest
    /\ InputsInit
    /\ source = <<>>
    /\ run = 1
    /\ pc = "send_long_message"
    /\ file = {}
    /\ RunLocalsInit
    /\ threads = <<>>
    /\ posted = <<>>
    /\ dest_broken = FALSE
    /\ calls = {}
    /\ create_calls = 0
    /\ io_failed = FALSE
    /\ faults = 0

\* await send_long_message(channel, text)
SendLongMessage ==
    /\ variant = "interactive"
    /\ pc = "send_long_message"
    /\ out.op = "none"
    /\ out' = [op |-> "send_long_message",
               chunks |-> send_long_message(text, LongLimit),
               raises |-> "-"]
    /\ UNCHANGED <<pipeline_vars, text, req, input_vars>>

LongNext == SendLongMessage

LongSpec == LongInit /\ [][LongNext]_vars

\* --------------------------------------------------------------- C31
\* The words of s: its maximal runs without whitespace, markers left out.
WordsOf(s) ==
    SelectSeq(words_and_spaces(s),
              LAMBDA w : w[1] \notin Whitespace /\ w # <<"-", "-", "-">>)

\* C31: every message send_long_message sends is at most the limit long,
\* also for a word longer than the limit, and the words of the text are
\* the words of the messages, in order.
C31_LongMessagesWithinLimit ==
    out.op = "send_long_message" =>
        /\ \A k \in 1..Len(out.chunks) : Len(out.chunks[k]) <= LongLimit
        /\ concat([k \in 1..Len(out.chunks) |-> WordsOf(out.chunks[k])]) = WordsOf(text)

\* The part of C31 on the words, without the length of the messages.
WordsKeptInOrder ==
    out.op = "send_long_message" =>
        concat([k \in 1..Len(out.chunks) |-> WordsOf(out.chunks[k])]) = WordsOf(text)


\* ============================================== get_all_channel_messages
\* One call of get_all_channel_messages on a channel whose messages are
\* source[1], newest first; all_messages is `messages`, last_message_id is
\* `mi` (NoCursor for None).
\* limit of one request (100), scaled
PageLimit == 2
MaxChannelMessages == 5
NoCursor == 0

\* A channel of n messages, newest first.
ChannelOf(n, urls) == [k \in 1..n |-> Message(n - k + 1, urls[n - k + 1])]

\* GET /channels/{id}/messages?limit=..&before=..: the newest messages
\* older than the cursor, newest first, at most `limit` of them.
batch_before(channel, cursor, limit) ==
    LET older == SelectSeq(channel, LAMBDA m : cursor = NoCursor \/ m.id < cursor)
    IN  SubSeq(older, 1, Min({limit, Len(older)}))

\* Faulty variant of next_cursor: the id of the newest message of the batch.
next_cursor_Newest(batch) == batch[1].id

\* last_message_id = messages[-1]['id']
next_cursor(batch) == batch[Len(batch)].id

PageInit ==
    /\ variant = "forum"
    /\ \E n \in 0..MaxChannelMessages : \E urls \in [1..n -> {U1, U2}] :
          source = <<ChannelOf(n, urls)>>
    /\ pc = "page"
    /\ messages = <<>>
    /\ mi = NoCursor
    /\ faults \in 0..MaxFaults
    /\ io_failed = FALSE
    /\ InputsInit
    /\ text = <<>>
    /\ out = NoOutput
    /\ req = NoRequest
    /\ run = 1
    /\ file = {}
    /\ historical_urls = {}
    /\ processed_urls_status = [u \in URLs |-> NoStatus]
    /\ target_thread_id = NoThread
    /\ temp_target_thread_id = NoThread
    /\ thread_created_this_time = FALSE
    /\ ci = 1
    /\ url_to_process = <<>>
    /\ summary_text = <<>>
    /\ formatted_chunks = <<>>
    /\ bodies = <<>>
    /\ loaded = {}
    /\ resolved = FALSE
    /\ find_after_resolved = FALSE
    /\ threads = <<>>
    /\ posted = <<>>
    /\ dest_broken = FALSE
    /\ calls = {}
    /\ create_calls = 0

page_vars == <<env_vars, run, file, historical_urls, processed_urls_status,
               target_thread_id, temp_target_thread_id,
               thread_created_this_time, ci, url_to_process, summary_text,
               formatted_chunks, bodies, platform_vars, calls, create_calls,
               loaded, resolved, find_after_resolved, chunker_vars>>

\* One turn of `while True` whose GET succeeds: an empty batch ends the
\* loop, any other batch is appended and its last id becomes the cursor.
FetchBatch ==
    /\ pc = "page"
    /\ LET batch == batch_before(source[1], mi, PageLimit) IN
       IF batch = <<>>
       THEN pc' = "returned" /\ UNCHANGED <<messages, mi>>
       ELSE /\ messages' = messages \o batch
            /\ mi' = next_cursor(batch)
            /\ pc' = "page"
    /\ UNCHANGED <<faults, io_failed, page_vars>>

\* The GET is answered 429: handle_rate_limit sleeps, `continue`.
BatchRateLimited ==
    /\ pc = "page"
    /\ faults > 0
    /\ faults' = faults - 1
    /\ UNCHANGED <<pc, messages, mi, io_failed, page_vars>>

\* The GET fails otherwise (RequestException or any other exception):
\* `break`, and all_messages is returned as it is.
BatchFailed ==
    /\ pc = "page"
    /\ faults > 0
    /\ faults' = faults - 1
    /\ io_failed' = TRUE
    /\ pc' = "returned"
    /\ UNCHANGED <<messages, mi, page_vars>>

PageNext ==
    \/ FetchBatch
    \/ BatchRateLimited
    \/ BatchFailed

PageSpec == PageInit /\ [][PageNext]_vars

\* The caller waits for the answer of every request, and an answer comes.
FairPageSpec == PageSpec /\ WF_vars(PageNext)

\* --------------------------------------------------------------- C32
\* The ids of the messages in ms, in order.
IdsIn(ms) == [k \in 1..Len(ms) |-> ms[k].id]

\* C32: get_all_channel_messages asks for the messages before the oldest
\* message it has, collects the channel's messages newest first without
\* repeating one, returns all of them when no request failed, returns what
\* it has when a request failed, and returns.
C32_PagesWholeChannel ==
    /\ [](/\ IsPrefix(IdsIn(messages), IdsIn(source[1]))
          /\ \A j, k \in 1..Len(messages) :
                j < k => messages[j].id > messages[k].id
          /\ mi = (IF messages = <<>> THEN NoCursor
                   ELSE messages[Len(messages)].id))
    /\ []((pc = "returned" /\ ~io_failed) => messages = source[1])
    /\ [][(pc = "page" /\ pc' = "returned" /\ ~io_failed') =>
             \A m \in Range(source[1]) : mi # NoCursor /\ m.id >= mi]_vars
    /\ <>(pc = "returned")

\* A channel of more than two pages was returned whole after a rate limit.
C32_Witness ==
    /\ pc = "returned"
    /\ ~io_failed
    /\ Len(source[1]) > 2 * PageLimit
    /\ messages = source[1]
    /\ faults < MaxFaults


\* --------------------------------------------------------------- C33
\* C33: in every script, the prompt handed to generate for a URL that is
\* not a video is the discussion-forum prompt when the URL contains
\* reddit.com and the generic prompt otherwise.
C33_PromptByUrlSubstring ==
    (variant \in Scripts /\ step.generate # "-") =>
        step.prompt = (IF OccursIn(REDDIT_COM, url_to_process)
                       THEN "discussion" ELSE "generic")


\* ======================================= runs sharing the processed-URLs file
\* Several processes of summarize_to_forum.py against one processed-URLs
\* file and one watched channel.  No lock is taken on the file: a process
\* reads it once, at its start, and every save rewrites it from the set the
\* process holds in memory.  A step of a process is one of its accesses to
\* the file or to the platform; the steps of different processes interleave
\* freely.
MaxProcesses == 2
Processes == 1..MaxProcesses

IdleProcess ==
    [pc |-> "idle", historical_urls |-> {},
     processed_urls_status |-> [u \in URLs |-> NoStatus],
     messages |-> <<>>, target_thread_id |-> NoThread,
     temp_target_thread_id |-> NoThread, bodies |-> <<>>,
     saved |-> {}, lost_at_start |-> {}]

Running(q) == processes[q].pc \notin {"idle", "done"}

\* save_processed_urls of the process is between its open(filepath, 'w')
\* and the end of its json.dump.
Saving(q) == processes[q].pc = "write"

\* History: the URLs some process posted and saved that the file lacks,
\* read when no save is under way.
LostUrls ==
    IF \E q \in Processes : Saving(q) THEN {}
    ELSE {u \in URLs :
             u \notin file /\ \E q \in Processes : u \in processes[q].saved}

\* len of the text json.dump(list(urls_set), f, indent=2) writes
RECURSIVE entries_length(_)
entries_length(urls_set) ==
    IF urls_set = {} THEN 0
    ELSE LET u == CHOOSE x \in urls_set : TRUE
         IN  Len(<<NL, SP, SP, "\"">>) + Len(u) + Len(<<"\"">>)
               + entries_length(urls_set \ {u})
json_length(urls_set) ==
    IF urls_set = {} THEN Len(<<"[", "]">>)
    ELSE Len(<<"[">>) + entries_length(urls_set)
           + (Cardinality(urls_set) - 1) + Len(<<NL, "]">>)

\* What load_processed_urls reads after the text of urls_set was written
\* from the start of a file that held `held`: the set, unless text another
\* process wrote since the file was emptied is longer and its tail stays
\* behind the new text (JSONDecodeError, the empty set).
written_over(urls_set, held) ==
    IF held = {} \/ json_length(urls_set) >= json_length(held) THEN urls_set
    ELSE {}

RaceInit ==
    /\ variant = "forum"
    /\ source \in Windows(1)
    /\ run = 1
    /\ pc = "processes"
    /\ file = {}
    /\ RunLocalsInit
    /\ threads = <<>>
    /\ posted = <<>>
    /\ dest_broken = FALSE
    /\ calls = {}
    /\ create_calls = 0
    /\ io_failed = FALSE
    /\ faults \in 0..1
    /\ text = <<>>
    /\ out = NoOutput
    /\ req = NoRequest
    /\ message = NoMessage
    /\ all_channels = NoListing
    /\ category_channels_to_process = <<>>
    /\ environ = NoEnviron
    /\ step = NoStep
    /\ lookups = <<>>
    /\ processes = [q \in Processes |-> IdleProcess]
    /\ overlapped = FALSE
    /\ tasks = <<>>
    /\ source_channel_id = NoChannel
    /\ target_channel_id = NoChannel

race_vars == <<env_vars, run, pc, historical_urls, run_locals,
               dest_broken, calls, create_calls, loaded, resolved,
               find_after_resolved, text, out, req, message, all_channels,
               category_channels_to_process, environ, step, lookups, tasks,
               source_channel_id, target_channel_id>>

\* The message the loop of the process is at, and its first URL.
url_of(q) == Head(processes[q].messages).url

\* format_summaries({url_to_process: [summary_text, channel_name]}) of the
\* process.
chunks_of(q) == formatted_chunks_of[url_of(q), summary_of[url_of(q)], ChannelNames[1]]

\* The end of one turn of `for message in reversed(messages)` with `status`
\* for the URL.
EndTurn(q, status) ==
    [processes[q] EXCEPT
        !.pc = "loop",
        !.processed_urls_status = [@ EXCEPT ![url_of(q)] = status],
        !.messages = Tail(@),
        !.bodies = <<>>]

\* main, lines 556-571: the chunks go to the thread `thread_id`.
BeginSend(q, thread_id) ==
    IF chunks_of(q) = <<>>
    THEN EndTurn(q, "POST_FAILED_FORMATTING")
    ELSE [processes[q] EXCEPT
             !.pc = "send",
             !.processed_urls_status = [@ EXCEPT ![url_of(q)] = "SUMMARIZED"],
             !.temp_target_thread_id = thread_id,
             !.bodies = deliver_found(chunks_of(q), Limit)]

\* main, lines 399-447: the process loads the file (the empty set when the
\* file cannot be read or parsed, as when another process has emptied it
\* for its save), asks for the channels of the guild (none: return) and
\* fetches the channel's messages (none: the run is over).
StartProcess(q) ==
    /\ pc = "processes"
    /\ processes[q].pc = "idle"
    /\ \E o \in {"ok", "load_failed", "no_channels", "no_messages"} :
          LET urls == IF o = "load_failed" THEN {} ELSE file
              returns == o \in {"no_channels", "no_messages"} IN
          /\ o = "load_failed" => file # {}
          /\ o # "ok" => faults > 0
          /\ faults' = IF o = "ok" THEN faults ELSE faults - 1
          /\ io_failed' = (io_failed \/ o = "load_failed")
          /\ processes' = [processes EXCEPT ![q] =
                [@ EXCEPT !.pc = IF returns THEN "done" ELSE "loop",
                          !.historical_urls = urls,
                          !.messages = IF returns THEN <<>>
                                       ELSE reversed(source[1]),
                          !.lost_at_start =
                              {u \in URLs \ urls :
                                  \E p \in Processes : u \in processes[p].saved}]]
    /\ overlapped' = (overlapped \/ \E o \in Processes \ {q} : Running(o))
    /\ UNCHANGED <<file, posted, threads, race_vars>>

\* main, lines 447-519: one message of the loop, up to its summary.  A URL
\* with a status in this run is passed over; one in the set in memory gets
\* DUPLICATE_HISTORICAL, one of x.com SKIPPED_XCOM; any other is summarised
\* and its posting begins.
VisitMessage(q) ==
    /\ pc = "processes"
    /\ processes[q].pc = "loop"
    /\ processes[q].messages # <<>>
    /\ LET url == url_of(q) IN
       IF processes[q].processed_urls_status[url] # NoStatus
       THEN /\ processes' = [processes EXCEPT ![q].messages = Tail(@)]
            /\ UNCHANGED faults
       ELSE IF url \in processes[q].historical_urls
       THEN /\ processes' = [processes EXCEPT
                                 ![q] = EndTurn(q, "DUPLICATE_HISTORICAL")]
            /\ UNCHANGED faults
       ELSE IF is_xcom(url)
       THEN /\ processes' = [processes EXCEPT ![q] = EndTurn(q, "SKIPPED_XCOM")]
            /\ UNCHANGED faults
       ELSE \E o \in (IF is_youtube(url) THEN GenerateYtOutcomes
                                         ELSE GeneralOutcomes) :
               /\ faults >= Cost(o)
               /\ faults' = faults - Cost(o)
               /\ processes' = [processes EXCEPT ![q] =
                     IF o # "text"
                     THEN EndTurn(q, IF o = "scrape_none" THEN "FAILED_SCRAPE"
                                     ELSE IF o = "blank" THEN "FAILED_EMPTY_SUMMARY"
                                     ELSE "FAILED_SUMMARY")
                     ELSE IF processes[q].target_thread_id = NoThread
                     THEN [@ EXCEPT
                             !.pc = "find",
                             !.processed_urls_status =
                                 [@ EXCEPT ![url] = "SUMMARIZED"],
                             !.temp_target_thread_id = NoThread]
                     ELSE BeginSend(q, processes[q].target_thread_id)]
    /\ UNCHANGED <<file, io_failed, overlapped, posted, threads, race_vars>>

\* main, lines 522-552: find_daily_thread on the threads the platform holds
\* now; a thread that is found is kept for the rest of the run.
FindDailyThread(q) ==
    /\ pc = "processes"
    /\ processes[q].pc = "find"
    /\ \E a_ok, m_ok, r_ok \in BOOLEAN : \E listing \in archived_listings(r_ok) :
         LET failed == find_failed(a_ok, m_ok, r_ok)
             found == find_daily_thread(a_ok, m_ok, r_ok, listing) IN
         /\ (~a_ok => "active" \in failed)
         /\ (~m_ok => "messages" \in failed)
         /\ (~r_ok => "archived" \in failed)
         /\ faults >= Cardinality(failed)
         /\ faults' = faults - Cardinality(failed)
         /\ processes' = [processes EXCEPT ![q] =
               IF found = NoThread THEN [@ EXCEPT !.pc = "create"]
               ELSE [BeginSend(q, found) EXCEPT !.target_thread_id = found]]
    /\ UNCHANGED <<file, io_failed, overlapped, posted, threads, race_vars>>

\* main, lines 525-549: create_daily_thread with the first chunk; the
\* chunks after it are sent to the new thread.
CreateOwnThread(q) ==
    /\ pc = "processes"
    /\ processes[q].pc = "create"
    /\ LET chunks == chunks_of(q)
           new_id == Len(threads) + 1 IN
       IF chunks = <<>>
       THEN /\ processes' = [processes EXCEPT
                                 ![q] = EndTurn(q, "POST_FAILED_FORMATTING")]
            /\ UNCHANGED <<threads, posted, faults>>
       ELSE \/ /\ threads' = Append(threads,
                     [name |-> post_title, parent |-> FORUM_CHANNEL_ID,
                      archived |-> FALSE, recent |-> TRUE, by |-> q])
               /\ posted' = Append(posted,
                     [dest |-> new_id,
                      body |-> initial_message(Head(chunks), Limit),
                      url |-> url_of(q), run |-> q, via |-> "create"])
               /\ processes' = [processes EXCEPT ![q] =
                     [@ EXCEPT
                        !.pc = IF Tail(chunks) = <<>> THEN "record" ELSE "send",
                        !.temp_target_thread_id = new_id,
                        !.bodies = deliver_found(Tail(chunks), Limit)]]
               /\ UNCHANGED faults
            \/ /\ faults > 0
               /\ faults' = faults - 1
               /\ processes' = [processes EXCEPT
                     ![q] = EndTurn(q, "POST_FAILED_THREAD_CREATE")]
               /\ UNCHANGED <<threads, posted>>
    /\ UNCHANGED <<file, io_failed, overlapped, race_vars>>

\* send_message_to_thread, one body: post_chunk returns True when the
\* platform took the body and False after an exception that is no
\* RequestException (POST_FAILED_CHUNK, break); a body the platform rejects
\* is tried again.
SendBody(q) ==
    /\ pc = "processes"
    /\ processes[q].pc = "send"
    /\ LET body == Head(processes[q].bodies) IN
       \/ /\ ~Rejected(body, Limit)
          /\ posted' = Append(posted,
                [dest |-> processes[q].temp_target_thread_id, body |-> body,
                 url |-> url_of(q), run |-> q, via |-> "send"])
          /\ processes' = [processes EXCEPT ![q] =
                [@ EXCEPT
                   !.pc = IF Tail(processes[q].bodies) = <<>> THEN "record"
                          ELSE "send",
                   !.bodies = Tail(@)]]
          /\ UNCHANGED faults
       \/ /\ faults > 0
          /\ faults' = faults - 1
          /\ processes' = [processes EXCEPT
                               ![q] = EndTurn(q, "POST_FAILED_CHUNK")]
          /\ UNCHANGED posted
    /\ UNCHANGED <<file, io_failed, overlapped, threads, race_vars>>

\* main, lines 574-578 and save_processed_urls, line 162: SUMMARIZED_POSTED,
\* historical_urls.add(url), and open(filepath, 'w'), which empties the
\* file; an IOError of the open leaves the file as it was.
OpenProcessedFile(q) ==
    /\ pc = "processes"
    /\ processes[q].pc = "record"
    /\ LET urls_set == processes[q].historical_urls \cup {url_of(q)}
           posted_ == [processes[q] EXCEPT
                          !.processed_urls_status =
                              [@ EXCEPT ![url_of(q)] = "SUMMARIZED_POSTED"],
                          !.historical_urls = urls_set]
       IN  \/ /\ file' = {}
              /\ processes' = [processes EXCEPT ![q] =
                                  [posted_ EXCEPT !.pc = "write"]]
              /\ UNCHANGED <<faults, io_failed>>
           \/ /\ faults > 0
              /\ faults' = faults - 1
              /\ io_failed' = TRUE
              /\ processes' = [processes EXCEPT ![q] =
                    [posted_ EXCEPT !.pc = "loop", !.messages = Tail(@)]]
              /\ UNCHANGED file
    /\ UNCHANGED <<posted, overlapped, threads, race_vars>>

\* save_processed_urls, lines 162-163: json.dump writes the whole set from
\* the start of the file; an IOError of the write leaves a file that holds
\* what it held or cannot be parsed.
WriteProcessedFile(q) ==
    /\ pc = "processes"
    /\ processes[q].pc = "write"
    /\ LET url == url_of(q)
           urls_set == processes[q].historical_urls
       IN  \E ok \in BOOLEAN :
              /\ ok \/ faults > 0
              /\ faults' = IF ok THEN faults ELSE faults - 1
              /\ io_failed' = (io_failed \/ ~ok)
              /\ file' \in (IF ok THEN {written_over(urls_set, file)}
                            ELSE save_failed(file))
              /\ processes' = [processes EXCEPT ![q] =
                    [@ EXCEPT !.pc = "loop",
                              !.messages = Tail(@),
                              !.saved = IF ok THEN @ \cup {url} ELSE @]]
    /\ UNCHANGED <<posted, overlapped, threads, race_vars>>

\* main returns.
FinishProcess(q) ==
    /\ pc = "processes"
    /\ processes[q].pc = "loop"
    /\ processes[q].messages = <<>>
    /\ processes' = [processes EXCEPT ![q].pc = "done"]
    /\ UNCHANGED <<file, posted, threads, faults, io_failed, overlapped,
                   race_vars>>

RaceNext ==
    \/ \E q \in Processes : StartProcess(q)
    \/ \E q \in Processes : VisitMessage(q)
    \/ \E q \in Processes : FindDailyThread(q)
    \/ \E q \in Processes : CreateOwnThread(q)
    \/ \E q \in Processes : SendBody(q)
    \/ \E q \in Processes : OpenProcessedFile(q)
    \/ \E q \in Processes : WriteProcessedFile(q)
    \/ \E q \in Processes : FinishProcess(q)

RaceSpec == RaceInit /\ [][RaceNext]_vars

\* --------------------------------------------------------------- C34
\* C34: as long as no run started while another was running, every URL a
\* run posted and saved is in the file (the lost update needs two runs
\* executing at the same time).
C34_LostUpdateOnlyWhenConcurrent ==
    (pc = "processes" /\ ~overlapped) => LostUrls = {}

\* The lost update with no failed load or save needs overlapping runs.
LostUpdateNeedsOverlapOrFailedIo ==
    (pc = "processes" /\ ~overlapped /\ ~io_failed) => LostUrls = {}

\* The lost update of two overlapping runs, with no failed load or save: a
\* run that started when the file lacked a URL another run had posted and
\* saved has posted that URL's summary a second time.
NoRepostAfterLostUpdate ==
    ~(/\ pc = "processes"
      /\ overlapped
      /\ ~io_failed
      /\ \E q \in Processes : \E i, j \in 1..Len(posted) :
            /\ i < j
            /\ posted[j].run = q
            /\ posted[i].run # q
            /\ posted[i].url = posted[j].url
            /\ posted[j].url \in processes[q].lost_at_start
            /\ posted[j].url \in processes[posted[i].run].saved)


\* ================================== translate: the two channels, by name
\* The translate script resolves its source and its target channel by name
\* in the listing of the guild, and returns when either is missing.

NamedKinds ==
    {[type |-> t, name |-> n, parent_id |-> NoParent] :
        t \in {TEXT, CATEGORY, ANNOUNCEMENT},
        n \in {SOURCE_CHANNEL_NAME, TARGET_CHANNEL_NAME}}

\* Faulty variant of find_channel_by_name: the type is not looked at.
RECURSIVE find_channel_by_name_AnyType(_, _)
find_channel_by_name_AnyType(channels, name) ==
    IF channels = <<>> THEN NoChannel
    ELSE IF Head(channels).name = name
         THEN Head(channels).id
         ELSE find_channel_by_name_AnyType(Tail(channels), name)

\* find_channel_by_name: the id of the first channel of that name whose
\* type is 0 or 5.
RECURSIVE find_channel_by_name(_, _)
find_channel_by_name(channels, name) ==
    IF channels = <<>> THEN NoChannel
    ELSE IF Head(channels).name = name
            /\ Head(channels).type \in {TEXT, ANNOUNCEMENT}
         THEN Head(channels).id
         ELSE find_channel_by_name(Tail(channels), name)

\* What get_guild_channels can answer: None (the request failed), or the
\* listing of a guild of at most MaxListed channels.
GuildListings ==
    {NoListing} \cup
    {[listed |-> TRUE, channels |-> Listing(kinds)] :
         kinds \in SeqsUpTo(NamedKinds, MaxListed)}

\* source[c] holds the messages of the channel of id c.
FindInit ==
    /\ variant = "translate"
    /\ source \in Windows(MaxListed)
    /\ all_channels = NoListing
    /\ run = 1
    /\ pc = "main"
    /\ file = {}
    /\ RunLocalsInit
    /\ threads = <<>>
    /\ posted = <<>>
    /\ dest_broken = FALSE
    /\ calls = {}
    /\ create_calls = 0
    /\ io_failed = FALSE
    /\ faults = 1
    /\ text = <<>>
    /\ out = NoOutput
    /\ req = NoRequest
    /\ message = NoMessage
    /\ category_channels_to_process = <<>>
    /\ environ = NoEnviron
    /\ step = NoStep
    /\ lookups = <<>>
    /\ processes = <<>>
    /\ overlapped = FALSE
    /\ tasks = <<>>
    /\ source_channel_id = NoChannel
    /\ target_channel_id = NoChannel

\* translate main, lines 204-222: all_channels = get_guild_channels(...),
\* `if not all_channels: return`, the two find_channel_by_name calls that
\* bind source_channel_id and target_channel_id, `if not
\* source_channel_id: return`, `if not target_channel_id: return`.  The
\* messages main goes on to read are those of the channel source_channel_id
\* (line 227), and it posts to the channel target_channel_id.
FindChannels ==
    /\ pc = "channels"
    /\ \E listing \in GuildListings :
          /\ all_channels' = listing
          /\ IF ~listing.listed \/ listing.channels = <<>>
             THEN /\ pc' = "done"
                  /\ ci' = ci
                  /\ UNCHANGED <<source_channel_id, target_channel_id>>
             ELSE /\ source_channel_id' =
                        find_channel_by_name(listing.channels, SOURCE_CHANNEL_NAME)
                  /\ target_channel_id' =
                        find_channel_by_name(listing.channels, TARGET_CHANNEL_NAME)
                  /\ IF \/ source_channel_id' = NoChannel
                        \/ target_channel_id' = NoChannel
                     THEN pc' = "done" /\ ci' = ci
                     ELSE pc' = "fetch" /\ ci' = source_channel_id'
    /\ UNCHANGED <<env_vars, run, file, historical_urls,
                   processed_urls_status, target_thread_id,
                   temp_target_thread_id, thread_created_this_time,
                   messages, mi, url_to_process, summary_text,
                   formatted_chunks, bodies, platform_vars, calls,
                   create_calls, loaded, resolved, find_after_resolved,
                   io_failed, faults, text, out, req, stage_vars>>

FindNext ==
    \/ LoadProcessedUrls
    \/ FindChannels
    \/ FetchMessages
    \/ NextMessage
    \/ SummarizeTranslate
    \/ PostChunk
    \/ DestinationBreaks
    \/ RecordProcessed
    \/ NextRun

FindSpec == FindInit /\ [][FindNext]_vars

\* --------------------------------------------------------------- C35
\* The listing holds a channel of that name of type text or announcement.
ListedByName(name) ==
    /\ all_channels.listed
    /\ \E k \in 1..Len(all_channels.channels) :
          /\ all_channels.channels[k].name = name
          /\ all_channels.channels[k].type \in {0, 5}

\* This run has no listing that names both channels: the listing failed or
\* lacks one of them (or main has not asked for it yet).
Unresolved ==
    ~(ListedByName(SOURCE_CHANNEL_NAME) /\ ListedByName(TARGET_CHANNEL_NAME))

\* C35: in the translate script, when the listing of the guild's channels
\* fails, or it holds no text or announcement channel of the source name or
\* none of the target name, the run fetches no message, calls no
\* collaborator and posts nothing, and the processed-URLs file stays as the
\* run found it: the step after the load ends the run, and neither of the
\* run's two steps changes the file, the platform or the calls.
C35_UnresolvedChannelsEndRun ==
    /\ [](Unresolved
            => /\ pc \in {"main", "channels", "done"}
               /\ messages = <<>>
               /\ \A c \in calls : c[1] # run
               /\ \A i \in 1..Len(posted) : posted[i].run # run)
    /\ [][(pc \in {"main", "channels"} /\ Unresolved')
            => /\ pc = "channels" => pc' = "done"
               /\ file' = file
               /\ posted' = posted
               /\ calls' = calls
               /\ messages' = <<>>]_vars

\* A second run that ended at the resolution, after a first run that read
\* the messages of the channel it had found, posted to the target it had
\* found and recorded the URL: the second listing names the source channel
\* only as a category, the source channel holds a message with a URL, and
\* the file still holds what the first run wrote.
C35_Witness ==
    /\ variant = "translate"
    /\ run = 2
    /\ pc = "done"
    /\ all_channels.listed
    /\ Len(all_channels.channels) = 2
    /\ ~ListedByName(SOURCE_CHANNEL_NAME)
    /\ ListedByName(TARGET_CHANNEL_NAME)
    /\ \E c \in 1..Len(source) : source[c] # <<>>
    /\ file # {}
    /\ posted # <<>>
    /\ \A i \in 1..Len(posted) : posted[i].run = 1

\* ===================================== the interactive client: on_message
\* summarize.py: the client library runs on_message as a task of its event
\* loop for every message it receives.  A task runs alone from one `await`
\* to the next; while it waits for channel.send the loop runs the other
\* tasks and starts the tasks of the messages that arrive.
MaxEvents == 2
InteractiveLimit == 30

\* message.channel.name of a channel of the BOT category
category_channel_name == <<"c">>

\* A local name of on_message: not assigned, None, or a str.
Unbound == [state |-> "unbound", value |-> <<>>]
NoneValue == [state |-> "None", value |-> <<>>]
Str(v) == [state |-> "str", value |-> v]

\* embed.url
url_of_embed(embed) == IF embed.has_url THEN Str(embed.url) ELSE NoneValue

\* `if url:`
truthy(v) == v.state = "str" /\ v.value # <<>>

\* What one call of on_message did up to its first `await`, its return or
\* its exception.
Returned(url, scraped, generated, generated_yt) ==
    [pc |-> "returned", error |-> "-", dest |-> "-", url |-> url,
     url_to_process |-> <<>>, text |-> <<>>, scrape_web_page |-> scraped,
     generate |-> generated, generate_yt |-> generated_yt]
Raised(error, url) ==
    [pc |-> "raised", error |-> error, dest |-> "-", url |-> url,
     url_to_process |-> <<>>, text |-> <<>>, scrape_web_page |-> "-",
     generate |-> "-", generate_yt |-> "-"]
Sends(dest, url, first_url, t, scraped, generated, generated_yt) ==
    [pc |-> "sending", error |-> "-", dest |-> dest, url |-> url,
     url_to_process |-> first_url, text |-> t,
     scrape_web_page |-> scraped, generate |-> generated,
     generate_yt |-> generated_yt]

\* The text a collaborator hands back.
handed_back(outcome) ==
    IF outcome = "text" THEN generated_text(U2) ELSE returned_text(outcome)

\* Lines 71-87: the URLs of the body; with none, the url of the first embed
\* of the first snapshot, and only when there is no such embed the url of
\* the message's first embed.
category_urls(m) ==
    LET urls == extract_urls_from_text(m.content, Whitespace)
        url == IF m.message_snapshots # <<>> /\ Head(m.message_snapshots) # <<>>
               THEN url_of_embed(Head(Head(m.message_snapshots)))
               ELSE IF m.embeds # <<>> THEN url_of_embed(Head(m.embeds))
               ELSE Unbound
    IN  IF urls # <<>> THEN [urls |-> urls, url |-> Unbound]
        ELSE [urls |-> IF truthy(url) THEN <<url.value>> ELSE <<>>, url |-> url]

\* Lines 155-165: the URLs of the body; with none, the url of the first embed.
source_urls(m) ==
    LET urls == extract_urls_from_text(m.content, Whitespace)
        url == IF m.embeds # <<>> THEN url_of_embed(Head(m.embeds)) ELSE Unbound
    IN  IF urls # <<>> THEN [urls |-> urls, url |-> Unbound]
        ELSE [urls |-> IF truthy(url) THEN <<url.value>> ELSE <<>>, url |-> url]

\* f"Summary of {url_to_process}:\n\n"
source_summary_prefix(url) ==
    <<"S", "u", "m", "m", "a", "r", "y", " ", "o", "f", " ">> \o url
        \o <<":", NL, NL>>

\* Lines 69-148: a channel of the BOT category.
category_branch(m, scraped, generated, generated_yt, found) ==
    LET found_urls == category_urls(m)
        url == found_urls.url
        first_url == Head(found_urls.urls)
    IN  IF found_urls.urls = <<>> THEN Returned(url, "-", "-", "-")
        ELSE IF ~found THEN Returned(url, "-", "-", "-")
        ELSE IF mentions_xcom(first_url) THEN Returned(url, "-", "-", "-")
        ELSE IF mentions_youtube(first_url)
        THEN IF generated_yt # "raise" /\ is_truthy(generated_yt)
             THEN Sends("summary", url, first_url,
                        summary_prefix(category_channel_name, first_url)
                            \o handed_back(generated_yt),
                        "-", "-", generated_yt)
             ELSE Returned(url, "-", "-", generated_yt)
        ELSE IF ~is_truthy(scraped) THEN Returned(url, scraped, "-", "-")
        ELSE IF ~is_truthy(generated) THEN Returned(url, scraped, generated, "-")
        ELSE Sends("summary", url, first_url,
                   summary_prefix(category_channel_name, first_url)
                       \o handed_back(generated),
                   scraped, generated, "-")

\* Lines 152-212: one of the source channels.  Line 167 reads the local
\* `url`, which only the embed fallback assigns.
source_branch(m, scraped, generated, found) ==
    LET found_urls == source_urls(m)
        url == found_urls.url
        first_url == Head(found_urls.urls)
    IN  IF url.state = "unbound" THEN Raised("UnboundLocalError", url)
        ELSE IF url.state = "None" THEN Raised("TypeError", url)
        ELSE IF mentions_xcom(url.value) THEN Returned(url, "-", "-", "-")
        ELSE IF found_urls.urls = <<>> THEN Returned(url, "-", "-", "-")
        ELSE IF ~found THEN Returned(url, "-", "-", "-")
        ELSE IF ~is_truthy(scraped) THEN Returned(url, scraped, "-", "-")
        ELSE IF ~is_truthy(generated) THEN Returned(url, scraped, generated, "-")
        ELSE Sends("target", url, first_url,
                   source_summary_prefix(first_url) \o handed_back(generated),
                   scraped, generated, "-")

\* on_message up to its first `await`.
on_message(m, scraped, generated, generated_yt, found) ==
    IF m.author_is_client THEN Returned(Unbound, "-", "-", "-")
    ELSE IF m.channel = "category"
    THEN category_branch(m, scraped, generated, generated_yt, found)
    ELSE IF m.channel = "source"
    THEN source_branch(m, scraped, generated, found)
    ELSE Returned(Unbound, "-", "-", "-")

\* The messages the client receives: with links in the body, with none and
\* an embed or not, with a snapshot, and from the client itself or in a
\* channel it does not watch.
InteractiveContents ==
    {Http \o <<"a">>, Https \o <<"b">> \o <<SP>> \o Http \o <<"a">>,
     Http \o XCOM, Http \o YOUTU_BE}
InteractiveEmbeds ==
    {<<>>, <<[has_url |-> FALSE, url |-> <<>>]>>,
     <<[has_url |-> TRUE, url |-> Http \o <<"e">>]>>}
ReceivedMessages ==
    {[author_is_client |-> FALSE, channel |-> c, content |-> t,
      embeds |-> <<>>, message_snapshots |-> <<>>] :
        c \in {"category", "source"}, t \in InteractiveContents}
    \cup {[author_is_client |-> FALSE, channel |-> c, content |-> <<"h", "i">>,
           embeds |-> e, message_snapshots |-> <<>>] :
           c \in {"category", "source"}, e \in InteractiveEmbeds}
    \cup {[author_is_client |-> FALSE, channel |-> "category",
           content |-> <<"h", "i">>, embeds |-> e, message_snapshots |-> <<sn>>] :
           e \in InteractiveEmbeds, sn \in InteractiveEmbeds}
    \cup {[author_is_client |-> a, channel |-> c, content |-> Http \o <<"a">>,
           embeds |-> <<>>, message_snapshots |-> <<>>] :
           a \in BOOLEAN, c \in {"category", "other"}}

\* What the collaborators and client.get_channel answer during one call of
\* on_message: all of them succeed, or one of them does not.
Answers(scraped, generated, generated_yt, found) ==
    [scrape_web_page |-> scraped, generate |-> generated,
     generate_yt |-> generated_yt, found |-> found]
AnswerPlans ==
    {Answers("text", "text", "text", TRUE), Answers("text", "text", "text", FALSE)}
    \cup {Answers(o, "text", "text", TRUE) : o \in Returns}
    \cup {Answers("text", o, "text", TRUE) : o \in Returns}
    \cup {Answers("text", "text", o, TRUE) : o \in Returns \cup {"raise"}}

\* The texts on_message hands to send_long_message for these messages, and
\* the messages send_long_message makes of each, tabulated once.
InteractiveUrls ==
    {Http \o <<"a">>, Https \o <<"b">>, Http \o <<"e">>, Http \o YOUTU_BE}
TextsToSend ==
    {prefix \o handed_back(outcome) :
        prefix \in {summary_prefix(category_channel_name, u) : u \in InteractiveUrls}
                   \cup {source_summary_prefix(u) : u \in InteractiveUrls},
        outcome \in {"text", "blank"}}
messages_to_send == [t \in TextsToSend |-> send_long_message(t, InteractiveLimit)]

NewTask(m) ==
    [message |-> m, pc |-> "pending", error |-> "-", dest |-> "-",
     url |-> Unbound, url_to_process |-> <<>>, text |-> <<>>,
     scrape_web_page |-> "-", generate |-> "-", generate_yt |-> "-",
     chunks |-> <<>>]

InteractiveInit ==
    /\ variant = "interactive"
    /\ \E n \in 1..MaxEvents : \E ms \in [1..n -> ReceivedMessages] :
          tasks = [k \in 1..n |-> NewTask(ms[k])]
    /\ source_channel_id = NoChannel
    /\ target_channel_id = NoChannel
    /\ source = <<>>
    /\ run = 1
    /\ pc = "events"
    /\ file = {}
    /\ RunLocalsInit
    /\ threads = <<>>
    /\ posted = <<>>
    /\ dest_broken = FALSE
    /\ calls = {}
    /\ create_calls = 0
    /\ io_failed = FALSE
    /\ faults = 1
    /\ text = <<>>
    /\ out = NoOutput
    /\ req = NoRequest
    /\ message = NoMessage
    /\ all_channels = NoListing
    /\ category_channels_to_process = <<>>
    /\ environ = NoEnviron
    /\ step = NoStep
    /\ lookups = <<>>
    /\ processes = <<>>
    /\ overlapped = FALSE

interactive_vars == <<env_vars, run, pc, file, historical_urls, run_locals,
                      threads, dest_broken, calls, create_calls, loaded,
                      resolved, find_after_resolved, io_failed, text, out,
                      req, message, all_channels,
                      category_channels_to_process, environ, step, lookups,
                      processes, overlapped, source_channel_id,
                      target_channel_id>>

\* The client receives the next message and makes a task of on_message.
Receive(k) ==
    /\ pc = "events"
    /\ tasks[k].pc = "pending"
    /\ \A j \in 1..(k - 1) : tasks[j].pc # "pending"
    /\ tasks' = [tasks EXCEPT ![k].pc = "start"]
    /\ UNCHANGED <<posted, faults, interactive_vars>>

\* The task runs on_message up to the first `await channel.send`;
\* send_long_message has split the text by then (utils.py, 84-130).
RunHandler(k) ==
    /\ pc = "events"
    /\ tasks[k].pc = "start"
    /\ \E plan \in AnswerPlans :
          LET found == plan.found
              o == on_message(tasks[k].message, plan.scrape_web_page,
                              plan.generate, plan.generate_yt, found)
              chunks == IF o.pc = "sending"
                        THEN messages_to_send[o.text] ELSE <<>>
          IN  /\ found \/ faults > 0
              /\ faults' = IF found THEN faults ELSE faults - 1
              /\ tasks' = [tasks EXCEPT ![k] =
                    [message |-> @.message,
                     pc |-> IF o.pc = "sending" /\ chunks = <<>>
                            THEN "returned" ELSE o.pc,
                     error |-> o.error, dest |-> o.dest, url |-> o.url,
                     url_to_process |-> o.url_to_process, text |-> o.text,
                     scrape_web_page |-> o.scrape_web_page,
                     generate |-> o.generate, generate_yt |-> o.generate_yt,
                     chunks |-> chunks]]
    /\ UNCHANGED <<posted, interactive_vars>>

\* One `await channel.send(...)` of send_long_message (utils.py, 87 and
\* 146).  An exception of the send is caught in on_message, which returns.
SendChunk(k) ==
    /\ pc = "events"
    /\ tasks[k].pc = "sending"
    /\ \/ /\ posted' = Append(posted,
                [dest |-> tasks[k].dest, body |-> Head(tasks[k].chunks),
                 url |-> tasks[k].url_to_process, run |-> k, via |-> "send"])
          /\ tasks' = [tasks EXCEPT ![k] =
                [@ EXCEPT !.chunks = Tail(@),
                          !.pc = IF Tail(tasks[k].chunks) = <<>>
                                 THEN "returned" ELSE "sending"]]
          /\ UNCHANGED faults
       \/ /\ faults > 0
          /\ faults' = faults - 1
          /\ tasks' = [tasks EXCEPT ![k] =
                [@ EXCEPT !.chunks = <<>>, !.pc = "returned",
                          !.error = "send"]]
          /\ UNCHANGED posted
    /\ UNCHANGED interactive_vars

InteractiveNext ==
    \/ \E k \in 1..Len(tasks) : Receive(k)
    \/ \E k \in 1..Len(tasks) : RunHandler(k)
    \/ \E k \in 1..Len(tasks) : SendChunk(k)

InteractiveSpec == InteractiveInit /\ [][InteractiveNext]_vars


\* --------------------------------------------------------------- C36
\* The first link of a body that has one: from the first match of the URL
\* pattern up to the next whitespace.
FirstLink(t) ==
    LET i == Least(MatchStarts(t, Whitespace))
    IN  CHOOSE u \in {SubSeq(t, i, j) : j \in i..Len(t)} :
            RunsToBreak(t, i, u, Whitespace)

\* The message of task k was written by someone else in a source channel
\* and its body has a link, the first of which does not mention x.com.
SourceMessageWithLink(k) ==
    LET m == tasks[k].message
    IN  /\ ~m.author_is_client
        /\ m.channel = "source"
        /\ MatchStarts(m.content, Whitespace) # {}
        /\ ~OccursIn(XCOM, FirstLink(m.content))

\* C36: in the interactive client, on_message for a message of a source
\* channel whose body has a link outside x.com raises nothing, and when
\* scrape_web_page and generate handed back text and the sends went
\* through, the summary of the first link was sent to the target channel.
C36_SourceMessageSummarised ==
    variant = "interactive" =>
        \A k \in 1..Len(tasks) :
            SourceMessageWithLink(k) =>
                /\ tasks[k].pc # "raised"
                /\ (/\ tasks[k].pc = "returned"
                    /\ tasks[k].scrape_web_page = "text"
                    /\ tasks[k].generate = "text"
                    /\ tasks[k].error = "-")
                    => \E i \in 1..Len(posted) :
                          /\ posted[i].run = k
                          /\ posted[i].dest = "target"
                          /\ posted[i].url = FirstLink(tasks[k].message.content)

\* --------------------------------------------------------------- C37
\* C37: in the interactive client, the messages one call of on_message
\* sends to a channel are next to one another in that channel: no message
\* of another call lies between two of them.
C37_ChunksContiguous ==
    variant = "interactive" =>
        \A i, j, k \in 1..Len(posted) :
            (/\ i < j /\ j < k
             /\ posted[i].run = posted[k].run
             /\ posted[i].dest = posted[j].dest
             /\ posted[k].dest = posted[j].dest)
                => posted[j].run = posted[i].run


\* --------------------------------------------------------------- C38
PostFailedTags == {"POST_FAILED_CHUNK", "POST_FAILED_THREAD_CREATE",
                   "POST_FAILED_FORMATTING", "POST_FAILED_UNKNOWN"}

\* The places of main inside the iteration of url_to_process.
InIteration == {"summarize", "find", "create", "post", "retry", "record"}

\* C38: in the forum script, outside the iteration of a URL its status is
\* SUMMARIZED_POSTED exactly when the URL was added to the processed set in
\* this run, and it is never SUMMARIZED; the iteration of a URL that reached
\* the posting ends with SUMMARIZED_POSTED and the URL added, or with one of
\* the POST_FAILED tags and nothing added.
C38_PostedIffRecorded ==
    /\ [](variant = "forum" =>
            \A u \in URLs :
                (pc \in InIteration /\ u = url_to_process)
                \/ (/\ processed_urls_status[u] = "SUMMARIZED_POSTED"
                        <=> u \in historical_urls \ loaded
                    /\ processed_urls_status[u] # "SUMMARIZED"))
    /\ [][(/\ variant = "forum"
           /\ pc \in {"find", "create", "post", "retry", "record"}
           /\ pc' \notin InIteration)
            => LET u == url_to_process
               IN  IF u \in historical_urls' \ historical_urls
                   THEN processed_urls_status'[u] = "SUMMARIZED_POSTED"
                   ELSE /\ processed_urls_status'[u] \in PostFailedTags
                        /\ historical_urls' = historical_urls]_vars

\* A forum run has posted and recorded one summary and failed to post
\* another.
C38_Witness ==
    /\ variant = "forum"
    /\ pc \notin InIteration
    /\ \E u, v \in URLs :
          /\ processed_urls_status[u] = "SUMMARIZED_POSTED"
          /\ u \in historical_urls \ loaded
          /\ processed_urls_status[v] \in PostFailedTags
          /\ v \notin historical_urls


\* --------------------------------------------------------------- C39
\* C39: for a text longer than the limit, every body send_discord_message
\* hands to post_chunk has a character that is not whitespace (no POST
\* with an empty body), also when the first line of the text is longer
\* than the limit.
C39_NoEmptyBody ==
    (/\ variant = "chunker"
     /\ out.op = "send_discord_message"
     /\ Len(text) > SplitLimit)
        => \A k \in 1..Len(out.chunks) : Inked(out.chunks[k]) # {}

====
